---- MODULE Spec2Model ----
(***************************************************************************)
(* A model of pyOCD's NXP LPC5500 family support                           *)
(* (pyocd/target/family/target_lpc5500.py with the LPC5516 memory map of   *)
(* pyocd/target/builtin/target_LPC5516Jxxxxx.py): the flash-aware memory   *)
(* read layer, the reset-catch state machine, the reset sequencer and the  *)
(* resynchronization of the debug-management access port.                  *)
(*                                                                         *)
(* Numbers.  TLC's integers are 32-bit signed, and the program handles     *)
(* unsigned 32-bit addresses and register values (0xE000EDFC, 0xFFFFFFFF), *)
(* so a number n is written as the pair <<n \div 65536, n % 65536>>, its   *)
(* high part and its low 16 bits.  The arithmetic below is Python's on     *)
(* non-negative ints.                                                      *)
(***************************************************************************)
EXTENDS Integers, Sequences, FiniteSets, TLC

\* hi * 65536 + lo, carried into normal form (0 <= lo < 65536).
Num(hi, lo) == <<hi + (lo \div 65536), lo % 65536>>

\* Python's a + k for a small non-negative int k.
AddInt(a, k) == Num(a[1], a[2] + k)

\* Python's a + b.
Add(a, b) == Num(a[1] + b[1], a[2] + b[2])

\* Python's a <= b and a < b.
Le(a, b) == a[1] < b[1] \/ (a[1] = b[1] /\ a[2] <= b[2])
Lt(a, b) == a[1] < b[1] \/ (a[1] = b[1] /\ a[2] < b[2])

\* Python's a >> 4.
Shr4(a) == <<a[1] \div 16, (a[1] % 16) * 4096 + (a[2] \div 16)>>

\* Bit i of a natural, and the weights of the 16 bits of a half.
Bit(x, i) == (x \div (2 ^ i)) % 2

\* Bitwise and / or of two 16-bit naturals, from bit i up.
RECURSIVE AndBits(_, _, _)
AndBits(x, y, i) ==
    IF i = 16 THEN 0
    ELSE (IF Bit(x, i) = 1 /\ Bit(y, i) = 1 THEN 2 ^ i ELSE 0) + AndBits(x, y, i + 1)

RECURSIVE OrBits(_, _, _)
OrBits(x, y, i) ==
    IF i = 16 THEN 0
    ELSE (IF Bit(x, i) = 1 \/ Bit(y, i) = 1 THEN 2 ^ i ELSE 0) + OrBits(x, y, i + 1)

\* Python's a & b, a | b and a & ~b on numbers below 2^32.
And32(a, b) == <<AndBits(a[1], b[1], 0), AndBits(a[2], b[2], 0)>>
Or32(a, b) == <<OrBits(a[1], b[1], 0), OrBits(a[2], b[2], 0)>>
AndNot32(a, b) == <<AndBits(a[1], 65535 - b[1], 0), AndBits(a[2], 65535 - b[2], 0)>>

Zero == <<0, 0>>
One == <<0, 1>>
\* 0xFFFFFFFF
AllOnes == <<65535, 65535>>

(***************************************************************************)
(* Register addresses and values of target_lpc5500.py.                     *)
(***************************************************************************)
\* 0xE0002000, 0xE0002008, 0xE0001020, 0xE0001028
FPB_CTRL == <<57344, 8192>>
FPB_COMP0 == <<57344, 8200>>
DWT_COMP0 == <<57344, 4128>>
DWT_FUNCTION0 == <<57344, 4136>>
\* 0x40000000, 0x50000000
PERIPHERAL_BASE_NS == <<16384, 0>>
PERIPHERAL_BASE_S == <<20480, 0>>
\* 0x00034000, 0x00034010, 0x00034014, 0x00034080, 0x00034FE0, 0x00034FE8
FLASH_CMD == <<3, 16384>>
FLASH_STARTA == <<3, 16400>>
FLASH_STOPA == <<3, 16404>>
FLASH_DATAW0 == <<3, 16512>>
FLASH_INT_STATUS == <<3, 20448>>
FLASH_INT_CLR_STATUS == <<3, 20456>>
FLASH_CMD_MARGIN_CHECK == <<0, 6>>
\* 0x50000040
BOOTROM_MAGIC_ADDR == <<20480, 64>>
\* The value written to FPB_CTRL to enable the breakpoint unit.
FPB_ENABLE == <<0, 3>>
\* The address of the reset vector slot, 0x00000004.
RESET_VECTOR_ADDR == <<0, 4>>
\* The masks of is_flash_erased: the "done" bit and the error bits.
INT_STATUS_DONE == <<0, 4>>
INT_STATUS_ERRORS == <<0, 11>>

\* CortexM.DEMCR (0xE000EDFC), CortexM.DHCSR (0xE000EDF0) and their bits
\* DEMCR_VC_CORERESET (bit 0) and S_RESET_ST (bit 25).
DEMCR == <<57344, 60924>>
DHCSR == <<57344, 60912>>
DEMCR_VC_CORERESET == <<0, 1>>
S_RESET_ST == <<512, 0>>

\* The registers of the debug-management AP and the values of the protocol.
DM_STATUS_REG == <<0, 252>>
DM_CSW_REG == <<0, 0>>
DM_REQUEST_REG == <<0, 4>>
DM_RESPONSE_REG == <<0, 8>>
\* 0x002A0000, 0x21, 0x07, 0xFFFF
DM_QUIESCENT == <<42, 0>>
DM_RESYNC_REQ == <<0, 33>>
DM_START_DBG_SESSION == <<0, 7>>
DM_RESPONSE_MASK == <<0, 65535>>

\* The reset-catch modes: the values of _reset_catch_mode.
MODE_NONE == 0
MODE_BREAKPOINT == 1
MODE_WATCHPOINT == 2

(***************************************************************************)
(* The memory map of the LPC5516.                                          *)
(***************************************************************************)
MEMORY_MAP ==
    << [name |-> "nsflash",   start |-> <<0, 0>>,    length |-> <<3, 53248>>, is_flash |-> TRUE],
       [name |-> "nsrom",     start |-> <<768, 0>>,  length |-> <<2, 0>>,     is_flash |-> FALSE],
       [name |-> "nscoderam", start |-> <<1024, 0>>, length |-> <<0, 16384>>, is_flash |-> FALSE],
       [name |-> "nsram",     start |-> <<8192, 0>>, length |-> <<1, 0>>,     is_flash |-> FALSE],
       [name |-> "usbram",    start |-> <<8193, 0>>, length |-> <<0, 16384>>, is_flash |-> FALSE] >>

\* No region: the result of a lookup that finds none.
NoRegion == [name |-> "", start |-> Zero, length |-> Zero, is_flash |-> FALSE]

\* MemoryRange.end: start + length - 1, for a region of one byte or more.
region_end(region) ==
    LET past == Add(region.start, region.length) IN
    IF past[2] > 0 THEN <<past[1], past[2] - 1>> ELSE <<past[1] - 1, 65535>>

\* MemoryRange.contains_address: start <= address <= end.
contains_address(region, addr) ==
    /\ region.name # ""
    /\ Le(region.start, addr)
    /\ Le(addr, region_end(region))

\* MemoryMap.get_region_for_address: the region that holds the address, or none.
get_region_for_address(addr) ==
    IF \E i \in 1..Len(MEMORY_MAP) : contains_address(MEMORY_MAP[i], addr)
    THEN MEMORY_MAP[CHOOSE i \in 1..Len(MEMORY_MAP) : contains_address(MEMORY_MAP[i], addr)]
    ELSE NoRegion

\* MemoryRange.contains_range(start, length): both ends of the range are in the region.
contains_range(region, addr, length) ==
    /\ contains_address(region, addr)
    /\ contains_address(region, AddInt(addr, length - 1))

\* A variant of the range test that forgets the region's type.
is_flash_range_any_type(region, addr, length) ==
    IF region.name = "" THEN FALSE ELSE contains_range(region, addr, length)

\* CortexM_LPC5500.is_flash_addr, from the region found for the address on
\* (lines 191-194).
is_flash_range(region, addr, length) ==
    IF region.name = "" \/ ~region.is_flash
    THEN FALSE
    ELSE contains_range(region, addr, length)

\* CortexM_LPC5500.is_flash_addr
is_flash_addr(addr, length) ==
    is_flash_range(get_region_for_address(addr), addr, length)

(***************************************************************************)
(* Bounds of the model.                                                    *)
(***************************************************************************)
\* The most elements (bytes or words) one read asks for.
MaxSize == 2
\* The most polls of the flash controller's status one probe makes.
MaxProbePolls == 2
\* The most register reads one polling loop of a reset makes.
MaxPolls == 2
\* The most resets of one run.
MaxResets == 2

(***************************************************************************)
(* The inputs the model draws.                                             *)
(***************************************************************************)
\* Values of DEMCR before the debugger touches it: VC_CORERESET alone,
\* TRCENA (0x01000000), TRCENA with every vector catch bit (0x010007F1).
DemcrValues == { <<0, 1>>, <<256, 0>>, <<256, 2033>> }
\* Words a programmed flash may hold at the reset vector slot.
VectorValues == { AllOnes, <<0, 4097>>, <<0, 4096>> }
\* The start addresses of reads: in flash (0x4, 0x3CFFC, 0x3CFFF), past its
\* end (0x3D000, in no region), in ROM (0x03000000) and in RAM (0x20000000).
ReadAddrs == { <<0, 4>>, <<3, 53244>>, <<3, 53247>>, <<3, 53248>>,
               <<768, 0>>, <<8192, 0>> }
\* The word addresses among them.
ReadAddrs32 == { a \in ReadAddrs : a[2] % 4 = 0 }
\* Values a register of the debug-management AP may read as.
ApValues == { Zero, DM_QUIESCENT, DM_RESYNC_REQ }
\* Values DHCSR may read as: 0x00030003 (halted) and 0x02030003 (S_RESET_ST set).
DhcsrValues == { <<3, 3>>, <<515, 3>> }
\* The error kinds a register or memory access may raise.
ErrorKinds == { "TransferFaultError", "TransferTimeoutError", "ProbeError" }
\* The reset types a caller may ask for ("None": not given).
ResetTypes == { "None", "HW" }

\* exceptions.py: TransferFaultError and TransferTimeoutError derive from
\* TransferError; ProbeError does not.
IsInstance(kind, cls) ==
    \/ kind = cls
    \/ cls = "TransferError" /\ kind \in { "TransferFaultError", "TransferTimeoutError" }

(***************************************************************************)
(* State.                                                                  *)
(***************************************************************************)
VARIABLES
    regs,                         \* the core's debug registers: address -> value
    flash,                        \* the flash: [erased, vector (the word at 0x4)]
    sw_breakpoints,               \* addresses that hold a software breakpoint
    reset_catch_mode,             \* CortexM_LPC5500._reset_catch_mode
    reset_catch_delegate_result,  \* CortexM_LPC5500._reset_catch_delegate_result
    reset_catch_saved_demcr,      \* CortexM_LPC5500._reset_catch_saved_demcr
    flash_erased,                 \* CortexM_LPC5500._flash_erased
    run_token,                    \* CortexM_LPC5500._run_token
    catch_active,                 \* an activation is outstanding (not yet released)
    pc,                           \* where the debugger's thread is
    polls,                        \* register reads made so far by the current polling loop
    op,                           \* the current (pc # "idle") or last operation
    log,                          \* what that operation did so far, in order
    demcr_before,                 \* DEMCR as the last activation found it
    sleeping,                     \* the call asleep in the probe's wait (line 218), if any
    pipeline                      \* the target's bring-up sequence and how far it has run

vars == << regs, flash, sw_breakpoints, reset_catch_mode, reset_catch_delegate_result,
           reset_catch_saved_demcr, flash_erased, run_token, catch_active, pc, polls,
           op, log, demcr_before, sleeping, pipeline >>

core_fields == << reset_catch_mode, reset_catch_delegate_result, reset_catch_saved_demcr,
                  flash_erased, run_token >>

\* The registers the model keeps the value of.
RegAddrs == { DEMCR, FPB_COMP0, FPB_CTRL, DWT_COMP0, DWT_FUNCTION0 }

\* The RAM addresses a software breakpoint may sit at (0x20000000).
BreakpointAddrs == { <<8192, 0>> }

(***************************************************************************)
(* Events of the log: what was done (ev), to which hook, notification or   *)
(* register space (n), at which address (a), with which value (v), and     *)
(* how a read ended (k: "ok" or the error raised).                         *)
(***************************************************************************)
Ev(ev, n, a, v, k) == [ev |-> ev, n |-> n, a |-> a, v |-> v, k |-> k]

\* write32 / write_memory of a word
MemWrite(a, v) == Ev("write", "mem", a, v, "ok")
\* write_memory_block32 of `count` words of zero
MemWriteBlock(a, count) == Ev("write_block", "mem", a, <<0, count>>, "ok")
\* a read of a flash controller register, through read32
CtrlRead(a, v) == Ev("read", "mem", a, v, "ok")
\* ap.read_memory_block32 / ap.read_memory_block8: a raw read of `count` elements
RawRead(n, a, count, k) == Ev("raw_read", n, a, <<0, count>>, k)
ApRead(reg, v, k) == Ev("ap_read", "dm_ap", reg, v, k)
ApWrite(reg, v) == Ev("ap_write", "dm_ap", reg, v, "ok")
DhcsrRead(v, k) == Ev("read", "mem", DHCSR, v, k)
Notify(name) == Ev("notify", name, Zero, Zero, "ok")
\* call_delegate(name, reset_type=t): k is the hook's answer
Hook(name, t, handled) == Ev("hook", name, Zero, Zero, IF handled THEN "handled:" \o t ELSE "declined:" \o t)
Halt == Ev("halt", "", Zero, Zero, "ok")
Flush == Ev("flush", "", Zero, Zero, "ok")
PerformReset(t) == Ev("perform_reset", t, Zero, Zero, "ok")
RunToken(n) == Ev("run_token", "", Zero, <<0, n>>, "ok")
SetWatchpoint(a) == Ev("set_watchpoint", "READ_WRITE", a, <<0, 4>>, "ok")

(***************************************************************************)
(* The target's memory as raw accesses see it.  f is what the flash holds  *)
(* when the access is made.                                                *)
(***************************************************************************)
\* The word stored at a word address: a debug register, the reset vector, or
\* (anywhere else) a word that tells the address.
MemWord(f, a) ==
    IF a \in RegAddrs THEN regs[a]
    ELSE IF a = RESET_VECTOR_ADDR THEN f.vector
    ELSE <<42405, a[2]>>

\* Byte k (0: least significant) of a word.
ByteOf(w, k) ==
    CASE k = 0 -> w[2] % 256
      [] k = 1 -> w[2] \div 256
      [] k = 2 -> w[1] % 256
      [] OTHER -> w[1] \div 256

\* The byte the program stored at an address (little-endian words).
OriginalByte(f, a) == ByteOf(MemWord(f, <<a[1], a[2] - (a[2] % 4)>>), a[2] % 4)

\* A software breakpoint at b replaces the two bytes at b and b + 1 by the
\* BKPT instruction 0xBE00.
RawByte(f, a) ==
    IF a \in sw_breakpoints THEN 0
    ELSE IF \E b \in sw_breakpoints : AddInt(b, 1) = a THEN 190
    ELSE OriginalByte(f, a)

RawWord(f, a) ==
    << RawByte(f, AddInt(a, 3)) * 256 + RawByte(f, AddInt(a, 2)),
       RawByte(f, AddInt(a, 1)) * 256 + RawByte(f, a) >>

\* A raw access to erased flash ends in a bus fault.
RawOutcome(f, addr) ==
    IF get_region_for_address(addr).is_flash /\ f.erased
    THEN "TransferFaultError" ELSE "ok"

\* ap.read_memory_block32(addr, size), ap.read_memory_block8(addr, size)
ap_read_memory_block32(f, addr, size) ==
    [outcome |-> RawOutcome(f, addr),
     data |-> IF RawOutcome(f, addr) = "ok"
              THEN [i \in 1..size |-> RawWord(f, AddInt(addr, 4 * (i - 1)))] ELSE <<>>]

ap_read_memory_block8(f, addr, size) ==
    [outcome |-> RawOutcome(f, addr),
     data |-> IF RawOutcome(f, addr) = "ok"
              THEN [i \in 1..size |-> RawByte(f, AddInt(addr, i - 1))] ELSE <<>>]

\* bp_manager.filter_memory_unaligned_8: the bytes a software breakpoint
\* shadows are replaced by the program's own.
filter_memory_unaligned_8(f, addr, size, data) ==
    [i \in 1..size |->
        LET a == AddInt(addr, i - 1) IN
        IF a \in sw_breakpoints \/ (\E b \in sw_breakpoints : AddInt(b, 1) = a)
        THEN OriginalByte(f, a) ELSE data[i]]

(***************************************************************************)
(* The margin-check probe.  What the flash controller answers is an input: *)
(* p.secure (the core's security state), p.polls (the reads of INT_STATUS  *)
(* the wait loop makes), p.done (a poll saw the "done" bit; FALSE: the     *)
(* 5 s ran out first, after as many polls as fit in them) and p.status     *)
(* (INT_STATUS as read after the loop).                                    *)
(***************************************************************************)
\* The controller's answers for the flash as it is: once done, the status holds
\* the done bit, with an error bit (FAIL 0x1 or ECC_ERR 0x8) exactly when the
\* range is erased; a controller that does not finish shows no done bit.
DoneStatuses == IF flash.erased THEN { <<0, 5>>, <<0, 12>> } ELSE { <<0, 4>> }
StuckStatuses == { <<0, 0>>, <<0, 1>> }

ProbeAnswers ==
    { [secure |-> s, polls |-> n, done |-> TRUE, status |-> st] :
        s \in BOOLEAN, n \in 1..MaxProbePolls, st \in DoneStatuses }
    \cup
    { [secure |-> s, polls |-> MaxProbePolls, done |-> FALSE, status |-> st] :
        s \in BOOLEAN, st \in StuckStatuses }

\* The answers of a controller that finishes at the first poll, seen from a
\* core in non-secure state.
PromptAnswers == { p \in ProbeAnswers : p.done /\ ~p.secure /\ p.polls = 1 }

\* The answers seen from a core in non-secure state.
NonSecureAnswers == { p \in ProbeAnswers : ~p.secure }

\* The answers that matter to a read of a range: one, never looked at, when
\* the range is not in flash.
ProbeAnswersFor(addr, length) ==
    IF is_flash_addr(addr, length) THEN ProbeAnswers
    ELSE { [secure |-> FALSE, polls |-> 1, done |-> TRUE, status |-> <<0, 4>>] }

\* The base of the flash controller's registers (lines 199-202).
flash_base(p) == IF p.secure THEN PERIPHERAL_BASE_S ELSE PERIPHERAL_BASE_NS

\* The start and stop flash word addresses of the probe's window (lines 207-208).
probe_start(addr, length) == Shr4(addr)
probe_stop(addr, length) == Shr4(AddInt(addr, length - 1))

\* The wait loop's reads of INT_STATUS (lines 214-218): the loop leaves at the
\* first read with the done bit, or when the time is up.
probe_wait(p) ==
    [i \in 1..p.polls |->
        CtrlRead(Add(flash_base(p), FLASH_INT_STATUS),
                 IF p.done /\ i = p.polls THEN p.status ELSE Zero)]

\* The probe's answer (lines 221-223).
probe_result(status) ==
    IF And32(status, INT_STATUS_ERRORS) = Zero THEN FALSE ELSE TRUE

\* The probe's writes to the flash controller at `base` (lines 207-211).
probe_setup(base, addr, length) ==
    << MemWrite(Add(base, FLASH_STARTA), probe_start(addr, length)),
       MemWrite(Add(base, FLASH_STOPA), probe_stop(addr, length)),
       MemWriteBlock(Add(base, FLASH_DATAW0), 8),
       MemWrite(Add(base, FLASH_INT_CLR_STATUS), <<0, 15>>),
       MemWrite(Add(base, FLASH_CMD), FLASH_CMD_MARGIN_CHECK) >>

\* What the flash may hold: nothing, or a program with its reset vector.
FlashStates ==
    { [erased |-> TRUE, vector |-> AllOnes] }
    \cup { [erased |-> FALSE, vector |-> v] : v \in VectorValues }

\* The wait loop slept (line 218): a poll did not see the done bit.
probe_sleeps(p) == ~p.done \/ p.polls > 1

\* The sleeps of the wait loop (line 218): one after every poll that did not
\* see the done bit, the last of them before the time is found to be up.
sleeps_of(p) == IF p.done THEN p.polls - 1 ELSE p.polls

\* What the probe has done when it sleeps for the `slept`-th time (lines
\* 207-218): the writes and the polls that did not see the done bit.
probe_asleep(addr, length, p, slept) ==
    probe_setup(flash_base(p), addr, length)
    \o [i \in 1..slept |-> CtrlRead(Add(flash_base(p), FLASH_INT_STATUS), Zero)]

\* CortexM_LPC5500.is_flash_erased: what it does and what it returns.
is_flash_erased(addr, length, p) ==
    [log |-> probe_setup(flash_base(p), addr, length)
             \o probe_wait(p)
             \o << CtrlRead(Add(flash_base(p), FLASH_INT_STATUS), p.status) >>,
     timed_out |-> ~p.done,
     erased |-> probe_result(p.status)]

(***************************************************************************)
(* The flash-aware read layer.  A read's result: what it did (log), how it *)
(* ended (outcome: "ok" or the error raised), the data returned, what the  *)
(* probe said ("none": not asked) and whether the probe's wait timed out.  *)
(***************************************************************************)
\* A variant of the synthetic words that takes the size for a count of bytes.
erased_words_per_byte(size) == [i \in 1..(size * 4) |-> AllOnes]

\* The synthetic data of a read of erased flash (lines 246 and 256).
erased_words(size) == [i \in 1..size |-> AllOnes]
erased_bytes(size) == [i \in 1..size |-> 255]

ReadResult(l, outcome, data, probe, timed_out) ==
    [log |-> l, outcome |-> outcome, data |-> data, probe |-> probe, timed_out |-> timed_out]

\* Line 248: the raw read of words, after what the read did `before`.
raw_read32(f, addr, size, before, probe, timed_out) ==
    ReadResult(before \o << RawRead("32", addr, size, RawOutcome(f, addr)) >>,
               RawOutcome(f, addr), ap_read_memory_block32(f, addr, size).data,
               probe, timed_out)

\* A variant of the read of words in flash that trusts the flag the last
\* activation left instead of the probe's answer.
probed_read32_cached(f, addr, size, probe) ==
    IF flash_erased
    THEN ReadResult(probe.log, "ok", erased_words(size), "erased", probe.timed_out)
    ELSE raw_read32(f, addr, size, probe.log, "not_erased", probe.timed_out)

\* Lines 245-248: a read of words in flash, after the probe.
probed_read32(f, addr, size, probe) ==
    IF probe.erased
    THEN ReadResult(probe.log, "ok", erased_words(size), "erased", probe.timed_out)
    ELSE raw_read32(f, addr, size, probe.log, "not_erased", probe.timed_out)

\* CortexM_LPC5500.read_memory_block32
read_memory_block32(f, addr, size, p) ==
    IF is_flash_addr(addr, size * 4)
    THEN probed_read32(f, addr, size, is_flash_erased(addr, size * 4, p))
    ELSE raw_read32(f, addr, size, <<>>, "none", FALSE)

\* Lines 258-259: the raw read of bytes and the breakpoint manager's filter.
raw_read8(f, addr, size, before, probe, timed_out) ==
    ReadResult(before \o << RawRead("8", addr, size, RawOutcome(f, addr)) >>,
               RawOutcome(f, addr),
               IF RawOutcome(f, addr) = "ok"
               THEN filter_memory_unaligned_8(f, addr, size,
                                              ap_read_memory_block8(f, addr, size).data)
               ELSE <<>>,
               probe, timed_out)

\* Lines 255-259: a read of bytes in flash, after the probe.
probed_read8(f, addr, size, probe) ==
    IF probe.erased
    THEN ReadResult(probe.log, "ok", erased_bytes(size), "erased", probe.timed_out)
    ELSE raw_read8(f, addr, size, probe.log, "not_erased", probe.timed_out)

\* CortexM_LPC5500.read_memory_block8
read_memory_block8(f, addr, size, p) ==
    IF is_flash_addr(addr, size)
    THEN probed_read8(f, addr, size, is_flash_erased(addr, size, p))
    ELSE raw_read8(f, addr, size, <<>>, "none", FALSE)

\* CortexM_LPC5500.read_memory with transfer_size 32, which read32 calls.
read32(f, addr, p) == read_memory_block32(f, addr, 1, p)

(***************************************************************************)
(* The reset-catch state machine.                                          *)
(***************************************************************************)
\* The value set_reset_catch writes to DEMCR (line 280).
cleared_vector_catch(saved) == AndNot32(saved, DEMCR_VC_CORERESET)

\* The mode set_reset_catch selects for a reset vector (lines 286-297).
selected_mode(reset_vector) ==
    IF reset_vector # AllOnes THEN MODE_BREAKPOINT ELSE MODE_WATCHPOINT

\* The value the flash-erased flag gets for a reset vector (lines 287, 295).
vector_says_erased(reset_vector) ==
    IF reset_vector # AllOnes THEN FALSE ELSE TRUE

\* A variant of the comparator value that leaves the Thumb bit as it is.
comparator_value_plain(reset_vector) == reset_vector

\* The value programmed into FPB comparator 0 (line 290).
comparator_value(reset_vector) == Or32(reset_vector, One)

\* What set_reset_catch does to arm the comparator of its mode (lines 286-303).
arm_log(reset_vector) ==
    IF reset_vector # AllOnes
    THEN << MemWrite(FPB_COMP0, comparator_value(reset_vector)),
            MemWrite(FPB_CTRL, FPB_ENABLE) >>
    ELSE << SetWatchpoint(BOOTROM_MAGIC_ADDR) >>

\* The function a read-write watchpoint of four bytes programs into
\* DWT_FUNCTION0 (0x814, the value of lines 302-303).
WatchpointFunction == <<0, 2068>>

\* Whether dwt.set_watchpoint (line 300) found comparator 0 free and wrote it:
\* the DWT is not this class's code, and a DWT with no comparator left sets
\* no watchpoint.
DwtAnswers == BOOLEAN

\* The registers after the arming: the two writes of lines 290-291, or what
\* dwt.set_watchpoint (line 300) does: with `programmed`, comparator 0 holds
\* the address and the function; without, the DWT wrote nothing.
arm_regs(r, reset_vector, programmed) ==
    IF reset_vector # AllOnes
    THEN [r EXCEPT ![FPB_COMP0] = comparator_value(reset_vector), ![FPB_CTRL] = FPB_ENABLE]
    ELSE IF programmed
         THEN [r EXCEPT ![DWT_COMP0] = BOOTROM_MAGIC_ADDR, ![DWT_FUNCTION0] = WatchpointFunction]
         ELSE r

\* What set_reset_catch has done when it has read the reset vector (lines
\* 267-283), after the hook that declined.
activation_log(reset_type, demcr_log, saved, vector_log) ==
    << Hook("set_reset_catch", reset_type, FALSE), Halt >>
    \o demcr_log
    \o << MemWrite(DEMCR, cleared_vector_catch(saved)) >>
    \o vector_log

\* Lines 286-306: the reset vector was read.
activation_armed(reset_type, demcr_log, saved, vector_log, reset_vector, programmed) ==
    [log |-> activation_log(reset_type, demcr_log, saved, vector_log)
             \o arm_log(reset_vector)
             \o << RawRead("32", DHCSR, 1, "ok") >>,
     outcome |-> "ok", vector |-> reset_vector,
     mode |-> selected_mode(reset_vector), delegate_result |-> FALSE,
     saved_demcr |-> saved, erased |-> vector_says_erased(reset_vector),
     regs |-> arm_regs([regs EXCEPT ![DEMCR] = cleared_vector_catch(saved)], reset_vector,
                       programmed)]

\* Line 283 raised: the read of the reset vector failed.
activation_failed(reset_type, demcr_log, saved, vector_log, error) ==
    [log |-> activation_log(reset_type, demcr_log, saved, vector_log),
     outcome |-> error, vector |-> Zero,
     mode |-> MODE_NONE, delegate_result |-> FALSE,
     saved_demcr |-> saved, erased |-> flash_erased,
     regs |-> [regs EXCEPT ![DEMCR] = cleared_vector_catch(saved)]]

\* Lines 270-306: the hook declined; DEMCR and the reset vector are read.
activation(reset_type, demcr_read, vector_read, programmed) ==
    IF vector_read.outcome # "ok"
    THEN activation_failed(reset_type, demcr_read.log, demcr_read.data[1],
                           vector_read.log, vector_read.outcome)
    ELSE activation_armed(reset_type, demcr_read.log, demcr_read.data[1],
                          vector_read.log, vector_read.data[1], programmed)

\* A variant of set_reset_catch in which an activation the hook handled sets
\* the flash-erased flag again.
set_reset_catch_handled_sets_flag(reset_type, handled, demcr_read, vector_read, programmed) ==
    IF handled
    THEN [log |-> << Hook("set_reset_catch", reset_type, TRUE) >>,
          outcome |-> "ok", vector |-> Zero,
          mode |-> MODE_NONE, delegate_result |-> TRUE,
          saved_demcr |-> reset_catch_saved_demcr, erased |-> TRUE,
          regs |-> regs]
    ELSE activation(reset_type, demcr_read, vector_read, programmed)

\* CortexM_LPC5500.set_reset_catch: the log, the outcome, the reset vector read
\* and the core's fields and the registers afterwards.  `handled` is the answer
\* of the set_reset_catch hook; demcr_read is what read_memory(DEMCR) of line
\* 274 gives, vector_read what read32(0x4) of line 283 gives and `programmed`
\* the DWT's answer of line 300, when made.
set_reset_catch(reset_type, handled, demcr_read, vector_read, programmed) ==
    IF handled
    THEN [log |-> << Hook("set_reset_catch", reset_type, TRUE) >>,
          outcome |-> "ok", vector |-> Zero,
          mode |-> MODE_NONE, delegate_result |-> TRUE,
          saved_demcr |-> reset_catch_saved_demcr, erased |-> flash_erased,
          regs |-> regs]
    ELSE activation(reset_type, demcr_read, vector_read, programmed)

\* What the sleeping call `c` has done so far: for set_reset_catch lines
\* 267-280, then the probe up to the sleep it is in.
asleep_log(c) ==
    (IF c.name = "set_reset_catch"
     THEN << Hook("set_reset_catch", c.reset_type, FALSE), Halt >>
          \o c.demcr_read.log
          \o << MemWrite(DEMCR, cleared_vector_catch(c.demcr_read.data[1])) >>
     ELSE <<>>)
    \o probe_asleep(c.addr, IF c.name = "read_memory_block8" THEN c.size ELSE c.size * 4,
                    c.answer, c.slept)

\* Lines 265-280: what set_reset_catch has done to the core's fields and to
\* the registers when its probe of line 283 sleeps and the other threads run.
set_reset_catch_asleep(demcr_read) ==
    [mode |-> MODE_NONE, delegate_result |-> FALSE,
     saved_demcr |-> demcr_read.data[1],
     regs |-> [regs EXCEPT ![DEMCR] = cleared_vector_catch(demcr_read.data[1])]]

\* Lines 283-306 after the sleep: the call `c` reads the reset vector and arms
\* the comparator in the registers as they are by now; the fields it wrote
\* before the sleep are not written again.
set_reset_catch_awake(c, vector_read, programmed) ==
    LET r == activation(c.reset_type, c.demcr_read, vector_read, programmed) IN
    [log |-> r.log, outcome |-> r.outcome, vector |-> r.vector,
     mode |-> IF r.outcome = "ok" THEN r.mode ELSE reset_catch_mode,
     erased |-> r.erased,
     regs |-> IF r.outcome = "ok" THEN arm_regs(regs, r.vector, programmed) ELSE regs]

\* A variant of the restored value: what the activation wrote, not what it saved.
restored_demcr_as_written(saved) == AndNot32(saved, DEMCR_VC_CORERESET)

\* The value clear_reset_catch writes back to DEMCR (line 375).
restored_demcr(saved) == saved

\* A variant of the disarming that clears the breakpoint comparator whatever
\* the mode.
disarm_log_breakpoint_always(mode) ==
    IF mode # MODE_NONE THEN << MemWrite(FPB_COMP0, Zero) >> ELSE <<>>

\* What clear_reset_catch does to disarm the comparator of a mode (lines 368-372).
disarm_log(mode) ==
    IF mode = MODE_BREAKPOINT THEN << MemWrite(FPB_COMP0, Zero) >>
    ELSE IF mode = MODE_WATCHPOINT
    THEN << MemWrite(DWT_COMP0, Zero), MemWrite(DWT_FUNCTION0, Zero) >>
    ELSE <<>>

disarm_regs(r, mode) ==
    IF mode = MODE_BREAKPOINT THEN [r EXCEPT ![FPB_COMP0] = Zero]
    ELSE IF mode = MODE_WATCHPOINT
    THEN [r EXCEPT ![DWT_COMP0] = Zero, ![DWT_FUNCTION0] = Zero]
    ELSE r

\* A variant of the release that lets its own hook's answer decide on the
\* cleanup.
clear_reset_catch_by_own_hook(reset_type, handled) ==
    IF ~handled
    THEN [log |-> << Hook("clear_reset_catch", reset_type, handled) >>
                  \o disarm_log(reset_catch_mode)
                  \o << MemWrite(DEMCR, reset_catch_saved_demcr) >>,
          regs |-> [disarm_regs(regs, reset_catch_mode)
                        EXCEPT ![DEMCR] = reset_catch_saved_demcr]]
    ELSE [log |-> << Hook("clear_reset_catch", reset_type, handled) >>, regs |-> regs]

\* CortexM_LPC5500.clear_reset_catch: the log and the registers afterwards.
\* `handled` is the answer of the clear_reset_catch hook, which the code drops.
clear_reset_catch(reset_type, handled) ==
    IF ~reset_catch_delegate_result
    THEN [log |-> << Hook("clear_reset_catch", reset_type, handled) >>
                  \o disarm_log(reset_catch_mode)
                  \o << MemWrite(DEMCR, restored_demcr(reset_catch_saved_demcr)) >>,
          regs |-> [disarm_regs(regs, reset_catch_mode)
                        EXCEPT ![DEMCR] = restored_demcr(reset_catch_saved_demcr)]]
    ELSE [log |-> << Hook("clear_reset_catch", reset_type, handled) >>, regs |-> regs]

(***************************************************************************)
(* The bring-up sequence.  A sequence is a list of steps [name, task,       *)
(* wrapper]; a step's task may return a sequence of its own, which runs in  *)
(* its place after the step's wrapper, if any, has edited it.  An edit      *)
(* gives [seq, error].                                                      *)
(***************************************************************************)
\* The highest access port number the target may have.
MaxAp == 2

Step(name, task) == [name |-> name, task |-> task, wrapper |-> "none"]
Ok(seq) == [seq |-> seq, error |-> "none"]

\* CallSequence.has_task and the place of a task.
has_task(seq, name) == \E i \in 1..Len(seq) : seq[i].name = name
index_of(seq, name) == CHOOSE i \in 1..Len(seq) : seq[i].name = name

\* CallSequence.insert_before(anchor, step)
insert_before(r, anchor, step) ==
    IF r.error # "none" THEN r
    ELSE IF ~has_task(r.seq, anchor) THEN [r EXCEPT !.error = "StepNotFound"]
    ELSE IF has_task(r.seq, step.name) THEN [r EXCEPT !.error = "DuplicateStep"]
    ELSE [r EXCEPT !.seq = SubSeq(r.seq, 1, index_of(r.seq, anchor) - 1)
                           \o << step >>
                           \o SubSeq(r.seq, index_of(r.seq, anchor), Len(r.seq))]

\* CallSequence.wrap_task(name, wrapper)
wrap_task(r, name, wrapper) ==
    IF r.error # "none" THEN r
    ELSE IF ~has_task(r.seq, name) THEN [r EXCEPT !.error = "StepNotFound"]
    ELSE [r EXCEPT !.seq[index_of(r.seq, name)].wrapper = wrapper]

\* CallSequence.replace_task(name, task)
replace_task(r, name, task) ==
    IF r.error # "none" THEN r
    ELSE IF ~has_task(r.seq, name) THEN [r EXCEPT !.error = "StepNotFound"]
    ELSE [r EXCEPT !.seq[index_of(r.seq, name)] = Step(name, task)]

\* A variant of _modify_ap1 that does not look for the step first.
modify_ap1_unguarded(seq) ==
    insert_before(Ok(seq), "init_ap.1", Step("set_ap1_nonsec", "_set_ap1_nonsec"))

\* LPC5500Family._modify_ap1 (lines 119-126), the wrapper of find_components.
modify_ap1(seq) ==
    IF has_task(seq, "init_ap.1")
    THEN insert_before(Ok(seq), "init_ap.1", Step("set_ap1_nonsec", "_set_ap1_nonsec"))
    ELSE Ok(seq)

\* The wrapper of the discovery step (lines 62-70): the edits of the sequence
\* that step returns.
discovery_edits(seq) ==
    insert_before(
        replace_task(
            wrap_task(
                insert_before(Ok(seq), "find_aps",
                              Step("resynchronize_dm_ap", "resynchronize_dm_ap")),
                "find_components", "_modify_ap1"),
            "create_cores", "create_lpc55xx_cores"),
        "create_components", Step("enable_traceclk", "_enable_traceclk"))

\* LPC5500Family.create_init_sequence (lines 58-73)
create_init_sequence(base) == wrap_task(Ok(base), "discovery", "discovery_edits")

\* CoreSightTarget.create_init_sequence: the generic sequence, with or
\* without the step that loads an SVD file.
BaseTop(svd) ==
    (IF svd THEN << Step("load_svd", "generic") >> ELSE <<>>)
    \o << Step("dp_init", "generic"), Step("power_up", "generic"),
          Step("discovery", "generic"), Step("check_for_cores", "generic"),
          Step("create_flash", "generic"), Step("notify", "generic") >>

\* The sequence the generic discovery step returns.
BaseDiscovery ==
    << Step("find_aps", "generic"), Step("create_aps", "generic"),
       Step("find_components", "generic"), Step("create_cores", "generic"),
       Step("create_components", "generic") >>

\* The sequence the generic find_components step returns: one step per
\* access port found, in the order of their numbers.
ApStepNames == << "init_ap.0", "init_ap.1", "init_ap.2", "init_ap.3" >>
ApSets == SUBSET (0..MaxAp)
BaseComponents(aps) ==
    SelectSeq([i \in 1..(MaxAp + 1) |-> Step(ApStepNames[i], "generic")],
              LAMBDA st : \E n \in aps : ApStepNames[n + 1] = st.name)

\* No sequence built yet.
NoPipeline ==
    [stage |-> "none", top |-> <<>>, top_pos |-> 0,
     base |-> <<>>, discovery |-> <<>>, disc_pos |-> 0,
     base_components |-> <<>>, components |-> <<>>, comp_pos |-> 0,
     error |-> "none", failed_step |-> "none"]

\* CallSequence.invoke: a sequence that has run to its end gives way to the
\* one that holds it.
settle(p) ==
    LET a == IF p.stage = "components" /\ p.comp_pos = Len(p.components)
             THEN [p EXCEPT !.stage = "discovery"] ELSE p
        b == IF a.stage = "discovery" /\ a.disc_pos = Len(a.discovery)
             THEN [a EXCEPT !.stage = "top"] ELSE a
    IN  IF b.stage = "top" /\ b.top_pos = Len(b.top)
        THEN [b EXCEPT !.stage = "done"] ELSE b

\* An edit that failed ends the bring-up.
staged(p) == IF p.error # "none" THEN [p EXCEPT !.stage = "failed"] ELSE settle(p)

\* CallSequence.invoke when the step it called returns from the discovery
\* sequence, and when a step raises: the error leaves invoke() with the step's
\* name and the bring-up ends.
step_returned(p) == staged([p EXCEPT !.disc_pos = @ + 1])
step_raised(p, name, kind) ==
    [p EXCEPT !.stage = "failed", !.error = kind, !.failed_step = name]

\* What a step's task may do: return ("none") or raise an error.
StepOutcomes == { "none" } \cup ErrorKinds

session_frame == << regs, flash, sw_breakpoints, reset_catch_mode,
                    reset_catch_delegate_result, reset_catch_saved_demcr, flash_erased,
                    run_token, catch_active, pc, polls, op, log, demcr_before, sleeping >>

(***************************************************************************)
(* Operations.  op tells the operation, its inputs and its result.         *)
(***************************************************************************)
OpRec(name) ==
    [name |-> name, addr |-> Zero, size |-> 0, reset_type |-> "None",
     handled |-> FALSE, outcome |-> "ok", data |-> <<>>, probe |-> "none",
     timed_out |-> FALSE, vector |-> Zero, resync |-> FALSE]

Init ==
    /\ \E d \in DemcrValues :
          regs = [a \in RegAddrs |-> IF a = DEMCR THEN d ELSE Zero]
    /\ flash \in FlashStates
    /\ sw_breakpoints = {}
    /\ reset_catch_mode = MODE_NONE
    /\ reset_catch_delegate_result = FALSE
    /\ reset_catch_saved_demcr = Zero
    /\ flash_erased = TRUE
    /\ run_token = 0
    /\ catch_active = FALSE
    /\ pc = "idle"
    /\ polls = 0
    /\ op = OpRec("none")
    /\ log = <<>>
    /\ demcr_before = regs[DEMCR]
    /\ sleeping = <<>>
    /\ pipeline = NoPipeline

\* A call the other threads find asleep in the probe's wait, in its first
\* sleep: its name and arguments, the controller's answer it waits for and,
\* for set_reset_catch, the read of DEMCR it has made.
SleepingCall(name, addr, size, reset_type, p, demcr_read) ==
    [name |-> name, addr |-> addr, size |-> size, reset_type |-> reset_type,
     answer |-> p, demcr_read |-> demcr_read, slept |-> 1]

\* The sleeping call wakes, polls INT_STATUS, sees no done bit and sleeps
\* again (lines 214-218).
SleepAgain ==
    /\ pc = "idle"
    /\ sleeping # <<>>
    /\ sleeping[1].slept < sleeps_of(sleeping[1].answer)
    /\ \E c \in { [sleeping[1] EXCEPT !.slept = @ + 1] } :
         /\ sleeping' = << c >>
         /\ op' = IF c.name = "set_reset_catch"
                  THEN [OpRec(c.name) EXCEPT !.reset_type = c.reset_type,
                                             !.outcome = "running"]
                  ELSE [OpRec(c.name) EXCEPT !.addr = c.addr, !.size = c.size,
                                             !.outcome = "running"]
         /\ log' = asleep_log(c)
    /\ UNCHANGED << regs, flash, sw_breakpoints, core_fields, catch_active, pc, polls,
                    pipeline, demcr_before >>

\* A call of read_memory_block32(addr, size): the whole call, or, when the
\* probe's wait sleeps (line 218), the call up to its first sleep; the other
\* threads run while it sleeps, in every sleep of the wait: they change the
\* flash, set or remove a breakpoint, release the reset catch or make an
\* activation the hook handles.
ReadBlock32(addr, size, p) ==
    /\ pc = "idle"
    /\ sleeping = <<>>
    /\ IF is_flash_addr(addr, size * 4) /\ probe_sleeps(p)
       THEN \E c \in { SleepingCall("read_memory_block32", addr, size, "None", p,
                                     ReadResult(<<>>, "ok", <<>>, "none", FALSE)) } :
              /\ sleeping' = << c >>
              /\ op' = [OpRec("read_memory_block32") EXCEPT
                           !.addr = addr, !.size = size, !.outcome = "running"]
              /\ log' = asleep_log(c)
       ELSE /\ \E r \in { read_memory_block32(flash, addr, size, p) } :
                 /\ op' = [OpRec("read_memory_block32") EXCEPT
                              !.addr = addr, !.size = size, !.outcome = r.outcome,
                              !.data = r.data, !.probe = r.probe, !.timed_out = r.timed_out]
                 /\ log' = r.log
            /\ UNCHANGED sleeping
    /\ UNCHANGED << regs, flash, sw_breakpoints, core_fields, catch_active, pc, polls,
                    pipeline, demcr_before >>

\* The read_memory_block32 in its last sleep wakes: the poll that sees the
\* done bit, or the time found to be up, then lines 220-223 and 245-248, in
\* the flash and among the breakpoints as they are by now.
WakeReadBlock32 ==
    /\ pc = "idle"
    /\ sleeping # <<>>
    /\ sleeping[1].name = "read_memory_block32"
    /\ sleeping[1].slept = sleeps_of(sleeping[1].answer)
    /\ \E c \in { sleeping[1] } :
       \E r \in { read_memory_block32(flash, c.addr, c.size, c.answer) } :
         /\ op' = [OpRec("read_memory_block32") EXCEPT
                      !.addr = c.addr, !.size = c.size, !.outcome = r.outcome,
                      !.data = r.data, !.probe = r.probe, !.timed_out = r.timed_out]
         /\ log' = r.log
    /\ sleeping' = <<>>
    /\ UNCHANGED << regs, flash, sw_breakpoints, core_fields, catch_active, pc, polls,
                    pipeline, demcr_before >>

\* A call of read_memory_block8(addr, size): the whole call, or the call up to
\* the sleep of its probe's wait.
ReadBlock8(addr, size, p) ==
    /\ pc = "idle"
    /\ sleeping = <<>>
    /\ IF is_flash_addr(addr, size) /\ probe_sleeps(p)
       THEN \E c \in { SleepingCall("read_memory_block8", addr, size, "None", p,
                                     ReadResult(<<>>, "ok", <<>>, "none", FALSE)) } :
              /\ sleeping' = << c >>
              /\ op' = [OpRec("read_memory_block8") EXCEPT
                           !.addr = addr, !.size = size, !.outcome = "running"]
              /\ log' = asleep_log(c)
       ELSE /\ \E r \in { read_memory_block8(flash, addr, size, p) } :
                 /\ op' = [OpRec("read_memory_block8") EXCEPT
                              !.addr = addr, !.size = size, !.outcome = r.outcome,
                              !.data = r.data, !.probe = r.probe, !.timed_out = r.timed_out]
                 /\ log' = r.log
            /\ UNCHANGED sleeping
    /\ UNCHANGED << regs, flash, sw_breakpoints, core_fields, catch_active, pc, polls,
                    pipeline, demcr_before >>

\* The read_memory_block8 in its last sleep wakes: the poll that sees the
\* done bit, or the time found to be up, then lines 220-223 and 253-259.
WakeReadBlock8 ==
    /\ pc = "idle"
    /\ sleeping # <<>>
    /\ sleeping[1].name = "read_memory_block8"
    /\ sleeping[1].slept = sleeps_of(sleeping[1].answer)
    /\ \E c \in { sleeping[1] } :
       \E r \in { read_memory_block8(flash, c.addr, c.size, c.answer) } :
         /\ op' = [OpRec("read_memory_block8") EXCEPT
                      !.addr = c.addr, !.size = c.size, !.outcome = r.outcome,
                      !.data = r.data, !.probe = r.probe, !.timed_out = r.timed_out]
         /\ log' = r.log
    /\ sleeping' = <<>>
    /\ UNCHANGED << regs, flash, sw_breakpoints, core_fields, catch_active, pc, polls,
                    pipeline, demcr_before >>

\* A call of set_reset_catch(reset_type): an activation, also when the one
\* before was not released.  The read of DEMCR comes before the probe of the
\* reset vector's slot, the read of the vector after it: the whole call, or,
\* when the probe's wait sleeps, the call up to there.
SetResetCatch(reset_type, handled, p) ==
    /\ pc = "idle"
    /\ ~handled => sleeping = <<>>
    /\ IF ~handled /\ probe_sleeps(p)
       THEN \E d \in { read_memory_block32(flash, DEMCR, 1, p) } :
            \E r \in { set_reset_catch_asleep(d) } :
            \E c \in { SleepingCall("set_reset_catch", RESET_VECTOR_ADDR, 1,
                                     reset_type, p, d) } :
              /\ sleeping' = << c >>
              /\ op' = [OpRec("set_reset_catch") EXCEPT
                           !.reset_type = reset_type, !.outcome = "running"]
              /\ log' = asleep_log(c)
              /\ regs' = r.regs
              /\ reset_catch_mode' = r.mode
              /\ reset_catch_delegate_result' = r.delegate_result
              /\ reset_catch_saved_demcr' = r.saved_demcr
              /\ UNCHANGED flash_erased
       ELSE \E w \in DwtAnswers :
            \E r \in { set_reset_catch(reset_type, handled,
                                       read_memory_block32(flash, DEMCR, 1, p),
                                       read32(flash, RESET_VECTOR_ADDR, p), w) } :
              /\ op' = [OpRec("set_reset_catch") EXCEPT
                           !.reset_type = reset_type, !.handled = handled,
                           !.outcome = r.outcome, !.vector = r.vector]
              /\ log' = r.log
              /\ regs' = r.regs
              /\ reset_catch_mode' = r.mode
              /\ reset_catch_delegate_result' = r.delegate_result
              /\ reset_catch_saved_demcr' = r.saved_demcr
              /\ flash_erased' = r.erased
              /\ UNCHANGED sleeping
    /\ demcr_before' = regs[DEMCR]
    /\ catch_active' = TRUE
    /\ UNCHANGED << flash, sw_breakpoints, run_token, pc, polls, pipeline >>

\* The set_reset_catch in its last sleep wakes: the poll that sees the done
\* bit, or the time found to be up, then lines 220-223 and 283-306.
WakeSetResetCatch ==
    /\ pc = "idle"
    /\ sleeping # <<>>
    /\ sleeping[1].name = "set_reset_catch"
    /\ sleeping[1].slept = sleeps_of(sleeping[1].answer)
    /\ \E c \in { sleeping[1] } :
       \E w \in DwtAnswers :
       \E r \in { set_reset_catch_awake(c, read32(flash, RESET_VECTOR_ADDR, c.answer), w) } :
         /\ op' = [OpRec("set_reset_catch") EXCEPT
                      !.reset_type = c.reset_type, !.outcome = r.outcome,
                      !.vector = r.vector]
         /\ log' = r.log
         /\ regs' = r.regs
         /\ reset_catch_mode' = r.mode
         /\ flash_erased' = r.erased
    /\ sleeping' = <<>>
    /\ catch_active' = TRUE
    /\ UNCHANGED << flash, sw_breakpoints, reset_catch_delegate_result,
                    reset_catch_saved_demcr, run_token, pc, polls, pipeline, demcr_before >>

\* A call of clear_reset_catch(reset_type): the release of the activation.
ClearResetCatch(reset_type, handled) ==
    /\ pc = "idle"
    /\ catch_active
    /\ \E r \in { clear_reset_catch(reset_type, handled) } :
         /\ op' = [OpRec("clear_reset_catch") EXCEPT
                      !.reset_type = reset_type, !.handled = handled]
         /\ log' = r.log
         /\ regs' = r.regs
    /\ catch_active' = FALSE
    /\ UNCHANGED << flash, sw_breakpoints, core_fields, pc, polls, pipeline, demcr_before,
                    sleeping >>

\* The flash is erased or programmed between two operations of the debugger.
FlashChange ==
    /\ pc = "idle"
    /\ flash' \in FlashStates \ { flash }
    /\ op' = OpRec("flash_change")
    /\ log' = <<>>
    /\ UNCHANGED << regs, sw_breakpoints, core_fields, catch_active, pc, polls, pipeline,
                    demcr_before, sleeping >>

\* A software breakpoint is set or removed.
BreakpointChange ==
    /\ pc = "idle"
    /\ \E b \in BreakpointAddrs :
          sw_breakpoints' = IF b \in sw_breakpoints
                            THEN sw_breakpoints \ { b } ELSE sw_breakpoints \cup { b }
    /\ op' = OpRec("breakpoint_change")
    /\ log' = <<>>
    /\ UNCHANGED << regs, flash, core_fields, catch_active, pc, polls, pipeline, demcr_before,
                    sleeping >>

(***************************************************************************)
(* The reset sequencer and the AP resynchronization.  A reset is a run of  *)
(* steps, one per answer of the target: pc tells the loop the debugger is  *)
(* in.  An answer to a register read is [k, v]: "ok" with the value read,  *)
(* or the error raised.                                                    *)
(***************************************************************************)
ReadAnswers(values) ==
    [k : { "ok" }, v : values] \cup [k : ErrorKinds, v : { Zero }]

\* The reset type reset() goes on with, whatever the caller passed (line 325).
chosen_reset_type(reset_type) == "SW_EMULATED"

\* CortexM._get_actual_reset_type: not given means the core's default
\* (SW_SYSRESETREQ, line 140); SW means the default software reset.
get_actual_reset_type(reset_type) ==
    IF reset_type \in { "None", "SW" } THEN "SW_SYSRESETREQ" ELSE reset_type

\* A variant of the first loop's handler that catches the whole transfer class.
quiescent_retries_any_transfer(kind) == IsInstance(kind, "TransferError")

\* The errors each polling loop catches and retries on (lines 87, 96, 115, 354).
quiescent_retries(kind) == IsInstance(kind, "TransferFaultError")
ack_retries(kind) == IsInstance(kind, "TransferTimeoutError")
session_retries(kind) == IsInstance(kind, "TransferTimeoutError")
poll_retries(kind) == IsInstance(kind, "TransferError")

\* A variant of the second loop's condition: wait until the request is gone,
\* not until the register is zero.
ack_pending_request(value) == value = DM_RESYNC_REQ

\* The loops' conditions to go on (lines 84, 93, 112) and to leave (line 352).
quiescent_pending(value) == value # DM_QUIESCENT
ack_pending(value) == value # Zero
session_pending(value) == And32(value, DM_RESPONSE_MASK) # Zero
out_of_reset(dhcsr) == And32(dhcsr, S_RESET_ST) = Zero

\* A variant of the resynchronization test that waits for an activation to
\* have armed a comparator.
needs_resync_once_armed == flash_erased /\ reset_catch_mode # MODE_NONE

\* A variant of the resynchronization test that ignores the flag.
needs_resync_always == TRUE

\* A variant of lines 342-344 with the hook before the halt.
after_resync_hook_first(t) == << Hook("did_reset", t, FALSE), Halt >>

\* Whether reset() resynchronizes the debug-management AP (line 339).
needs_resync == flash_erased

\* Lines 342-344: the halt and the did_reset hook.
after_resync(t) == << Halt, Hook("did_reset", t, FALSE) >>

\* Lines 323-344 up to the first poll: the notification, the run token, the
\* will_reset hook and, if it declines, the reset itself.
reset_begin(reset_type, handled) ==
    LET t == get_actual_reset_type(chosen_reset_type(reset_type)) IN
    << Notify("PRE_RESET"), RunToken(run_token + 1), Hook("will_reset", t, handled) >>
    \o (IF ~handled THEN << PerformReset(t) >> ELSE <<>>)
    \o (IF needs_resync THEN <<>> ELSE after_resync(t))

\* What the reset does when its status poll is over (line 358).
reset_end(timed_out) == << Notify("POST_RESET") >>

\* How reset() ends when the status poll is over: it returns.
reset_end_outcome(timed_out) == "ok"

\* The bring-up sequence after a step of the protocol of lines 75-117: when
\* the step resynchronize_dm_ap runs it, the sequence goes on as the protocol
\* returns and ends as it raises.
bring_up_after(returned, raised, kind) ==
    IF ~(pipeline.stage = "discovery" /\ op.name = "resynchronize_dm_ap") THEN pipeline
    ELSE IF returned THEN step_returned(pipeline)
    ELSE IF raised THEN step_raised(pipeline, "resynchronize_dm_ap", kind)
    ELSE pipeline

call_frame == << regs, flash, sw_breakpoints, reset_catch_mode,
                 reset_catch_delegate_result, reset_catch_saved_demcr, flash_erased,
                 catch_active, demcr_before, sleeping >>

reset_frame == << regs, flash, sw_breakpoints, reset_catch_mode,
                  reset_catch_delegate_result, reset_catch_saved_demcr, flash_erased,
                  catch_active, demcr_before, sleeping, pipeline >>

\* An error leaves the reset: nothing more is done.
Raise(event, kind) ==
    /\ log' = Append(log, event)
    /\ op' = [op EXCEPT !.outcome = kind]
    /\ pc' = "idle"
    /\ polls' = 0

\* A call of reset(reset_type), up to its first poll.
ResetStart(reset_type, handled) ==
    /\ pc = "idle"
    /\ run_token < MaxResets
    /\ run_token' = run_token + 1
    /\ log' = reset_begin(reset_type, handled)
    /\ op' = [OpRec("reset") EXCEPT
                 !.reset_type = reset_type, !.handled = handled,
                 !.outcome = "running", !.resync = needs_resync]
    /\ pc' = IF needs_resync THEN "await_quiescent" ELSE "reset_poll"
    /\ polls' = 0
    /\ UNCHANGED reset_frame

\* resynchronize_dm_ap, lines 84-91: one read of the status register.
AwaitQuiescent(ans) ==
    /\ pc = "await_quiescent"
    /\ polls < MaxPolls
    /\ LET rd == ApRead(DM_STATUS_REG, ans.v, ans.k) IN
         IF ans.k = "ok" /\ ~quiescent_pending(ans.v)
         THEN /\ log' = log \o << rd, ApWrite(DM_CSW_REG, DM_RESYNC_REQ) >>
              /\ pc' = "await_ack"
              /\ polls' = 0
              /\ op' = op
         ELSE IF ans.k = "ok" \/ quiescent_retries(ans.k)
         THEN /\ log' = Append(log, rd)
              /\ polls' = polls + 1
              /\ UNCHANGED << pc, op >>
         ELSE Raise(rd, ans.k)
    /\ pipeline' = bring_up_after(FALSE, ans.k # "ok" /\ ~quiescent_retries(ans.k), ans.k)
    /\ UNCHANGED << call_frame, run_token >>

\* resynchronize_dm_ap, lines 93-99, and start_debug_session, line 110: one
\* read of the command register.
AwaitAck(ans) ==
    /\ pc = "await_ack"
    /\ polls < MaxPolls
    /\ LET rd == ApRead(DM_CSW_REG, ans.v, ans.k) IN
         IF ans.k = "ok" /\ ~ack_pending(ans.v)
         THEN /\ log' = log \o << rd, ApWrite(DM_REQUEST_REG, DM_START_DBG_SESSION) >>
              /\ pc' = "await_session"
              /\ polls' = 0
              /\ op' = op
         ELSE IF ans.k = "ok" \/ ack_retries(ans.k)
         THEN /\ log' = Append(log, rd)
              /\ polls' = polls + 1
              /\ UNCHANGED << pc, op >>
         ELSE Raise(rd, ans.k)
    /\ pipeline' = bring_up_after(FALSE, ans.k # "ok" /\ ~ack_retries(ans.k), ans.k)
    /\ UNCHANGED << call_frame, run_token >>

\* start_debug_session, lines 112-116: one read of the response register;
\* then reset() goes on with lines 342-344.
AwaitSession(ans) ==
    /\ pc = "await_session"
    /\ polls < MaxPolls
    /\ LET rd == ApRead(DM_RESPONSE_REG, ans.v, ans.k)
           t == get_actual_reset_type(chosen_reset_type(op.reset_type))
       IN
         IF ans.k = "ok" /\ ~session_pending(ans.v)
         THEN IF op.name = "reset"
              THEN /\ log' = log \o << rd >> \o after_resync(t)
                   /\ pc' = "reset_poll"
                   /\ polls' = 0
                   /\ op' = op
              ELSE /\ log' = Append(log, rd)
                   /\ pc' = "idle"
                   /\ polls' = 0
                   /\ op' = [op EXCEPT !.outcome = "ok"]
         ELSE IF ans.k = "ok" \/ session_retries(ans.k)
         THEN /\ log' = Append(log, rd)
              /\ polls' = polls + 1
              /\ UNCHANGED << pc, op >>
         ELSE Raise(rd, ans.k)
    /\ pipeline' = bring_up_after(ans.k = "ok" /\ ~session_pending(ans.v),
                                  ans.k # "ok" /\ ~session_retries(ans.k), ans.k)
    /\ UNCHANGED << call_frame, run_token >>

\* reset(), lines 348-356: one read of DHCSR while the 2 s are not over.
ResetPoll(ans) ==
    /\ pc = "reset_poll"
    /\ polls < MaxPolls
    /\ LET rd == DhcsrRead(ans.v, ans.k) IN
         IF ans.k = "ok" /\ out_of_reset(ans.v)
         THEN /\ log' = log \o << rd >> \o reset_end(FALSE)
              /\ op' = [op EXCEPT !.outcome = reset_end_outcome(FALSE)]
              /\ pc' = "idle"
              /\ polls' = 0
         ELSE IF ans.k = "ok"
         THEN /\ log' = Append(log, rd)
              /\ polls' = polls + 1
              /\ UNCHANGED << pc, op >>
         ELSE IF poll_retries(ans.k)
         THEN /\ log' = log \o << rd, Flush >>
              /\ polls' = polls + 1
              /\ UNCHANGED << pc, op >>
         ELSE Raise(rd, ans.k)
    /\ UNCHANGED << reset_frame, run_token >>

\* reset(), lines 348-358: the 2 s are over (Timeout.check() is false) after at
\* least one read; the loop ends and reset() goes on to line 358.
ResetPollTimeout ==
    /\ pc = "reset_poll"
    /\ polls >= 1
    /\ log' = log \o reset_end(TRUE)
    /\ op' = [op EXCEPT !.outcome = reset_end_outcome(TRUE), !.timed_out = TRUE]
    /\ pc' = "idle"
    /\ polls' = 0
    /\ UNCHANGED << reset_frame, run_token >>

\* The bring-up task resynchronize_dm_ap (lines 63-65) starts the protocol.
ResyncStart ==
    /\ pc = "idle"
    /\ op' = [OpRec("resynchronize_dm_ap") EXCEPT !.outcome = "running", !.resync = TRUE]
    /\ log' = <<>>
    /\ pc' = "await_quiescent"
    /\ polls' = 0
    /\ UNCHANGED << reset_frame, run_token >>

(***************************************************************************)
(* The bring-up as it runs.                                                *)
(***************************************************************************)
\* The target builds its bring-up sequence.
CreateInitSequence(svd) ==
    /\ pipeline.stage = "none"
    /\ \E r \in { create_init_sequence(BaseTop(svd)) } :
          pipeline' = staged([NoPipeline EXCEPT !.stage = "top", !.top = r.seq,
                                                !.error = r.error])
    /\ UNCHANGED session_frame

\* The next step of the sequence runs; the discovery step returns the generic
\* discovery sequence, which its wrapper edits.
ExecuteTop(raised) ==
    /\ pipeline.stage = "top"
    /\ IF raised # "none"
       THEN pipeline' = step_raised(pipeline, pipeline.top[pipeline.top_pos + 1].name, raised)
       ELSE IF pipeline.top[pipeline.top_pos + 1].wrapper = "discovery_edits"
       THEN \E r \in { discovery_edits(BaseDiscovery) } :
               pipeline' = staged([pipeline EXCEPT !.top_pos = @ + 1,
                                       !.stage = "discovery", !.base = BaseDiscovery,
                                       !.discovery = r.seq, !.error = r.error])
       ELSE pipeline' = staged([pipeline EXCEPT !.top_pos = @ + 1])
    /\ UNCHANGED session_frame

\* The next step of the discovery sequence runs, but find_components: it
\* returns or raises; the step resynchronize_dm_ap begins the protocol of lines
\* 75-117, and the sequence goes on when the protocol has ended.
ExecuteDiscovery(raised) ==
    /\ pipeline.stage = "discovery"
    /\ pc = "idle"
    /\ pipeline.discovery[pipeline.disc_pos + 1].wrapper # "_modify_ap1"
    /\ IF pipeline.discovery[pipeline.disc_pos + 1].task = "resynchronize_dm_ap"
       THEN /\ raised = "none"
            /\ op' = [OpRec("resynchronize_dm_ap") EXCEPT
                         !.outcome = "running", !.resync = TRUE]
            /\ log' = <<>>
            /\ pc' = "await_quiescent"
            /\ polls' = 0
            /\ UNCHANGED << reset_frame, run_token >>
       ELSE /\ pipeline' =
                  IF raised = "none" THEN step_returned(pipeline)
                  ELSE step_raised(pipeline,
                                   pipeline.discovery[pipeline.disc_pos + 1].name, raised)
            /\ UNCHANGED session_frame

\* find_components runs: it returns one step per access port found, and its
\* wrapper edits them.
FindComponents(aps, raised) ==
    /\ pipeline.stage = "discovery"
    /\ pc = "idle"
    /\ pipeline.discovery[pipeline.disc_pos + 1].wrapper = "_modify_ap1"
    /\ IF raised # "none"
       THEN pipeline' = step_raised(pipeline,
                                    pipeline.discovery[pipeline.disc_pos + 1].name, raised)
       ELSE \E r \in { modify_ap1(BaseComponents(aps)) } :
               pipeline' = staged([pipeline EXCEPT !.disc_pos = @ + 1,
                                       !.stage = "components",
                                       !.base_components = BaseComponents(aps),
                                       !.components = r.seq, !.error = r.error])
    /\ UNCHANGED session_frame

\* The next step of the sequence find_components returned runs.
ExecuteComponents(raised) ==
    /\ pipeline.stage = "components"
    /\ pipeline' =
          IF raised = "none" THEN staged([pipeline EXCEPT !.comp_pos = @ + 1])
          ELSE step_raised(pipeline, pipeline.components[pipeline.comp_pos + 1].name, raised)
    /\ UNCHANGED session_frame

(***************************************************************************)
(* Specifications: the read layer, the reset-catch state machine, the      *)
(* resynchronization protocol as the bring-up runs it, the reset           *)
(* sequencer, and all of them together.                                    *)
(***************************************************************************)
Reads ==
    \/ \E a \in ReadAddrs32, n \in 1..MaxSize :
          \E p \in ProbeAnswersFor(a, n * 4) : ReadBlock32(a, n, p)
    \/ \E a \in ReadAddrs, n \in 1..MaxSize :
          \E p \in ProbeAnswersFor(a, n) : ReadBlock8(a, n, p)
    \/ SleepAgain
    \/ WakeReadBlock32
    \/ WakeReadBlock8

Activations ==
    \/ \E t \in ResetTypes : \E p \in ProbeAnswers : SetResetCatch(t, FALSE, p)
    \/ \E t \in ResetTypes : \E p \in PromptAnswers : SetResetCatch(t, TRUE, p)
    \/ \E t \in ResetTypes, h \in BOOLEAN : ClearResetCatch(t, h)
    \/ SleepAgain
    \/ WakeSetResetCatch

ResyncSteps ==
    \/ \E ans \in ReadAnswers(ApValues) : AwaitQuiescent(ans)
    \/ \E ans \in ReadAnswers(ApValues) : AwaitAck(ans)
    \/ \E ans \in ReadAnswers(ApValues) : AwaitSession(ans)

ResetSteps ==
    \/ \E t \in ResetTypes, h \in BOOLEAN : ResetStart(t, h)
    \/ \E ans \in ReadAnswers(DhcsrValues) : ResetPoll(ans)
    \/ ResetPollTimeout

NextRead == Reads \/ FlashChange \/ BreakpointChange
SpecRead == Init /\ [][NextRead]_vars

NextCatch == Activations \/ FlashChange
SpecCatch == Init /\ [][NextCatch]_vars

\* The register the loop at pc reads, and whether the loop goes on after an
\* answer (lines 84-88, 93-97, 112-116).
loop_register(at) ==
    CASE at = "await_quiescent" -> DM_STATUS_REG
      [] at = "await_ack" -> DM_CSW_REG
      [] OTHER -> DM_RESPONSE_REG

loop_goes_on(at, ans) ==
    CASE at = "await_quiescent" ->
            IF ans.k = "ok" THEN quiescent_pending(ans.v) ELSE quiescent_retries(ans.k)
      [] at = "await_ack" ->
            IF ans.k = "ok" THEN ack_pending(ans.v) ELSE ack_retries(ans.k)
      [] OTHER ->
            IF ans.k = "ok" THEN session_pending(ans.v) ELSE session_retries(ans.k)

\* A loop of the protocol reads on after MaxPolls reads that did not end it:
\* no statement of lines 84-88, 93-97 and 112-116 counts the reads or looks at
\* a clock.  The log keeps the latest read in the place of the one before.
PollOn(ans) ==
    /\ pc \in { "await_quiescent", "await_ack", "await_session" }
    /\ polls = MaxPolls
    /\ loop_goes_on(pc, ans)
    /\ log' = [log EXCEPT ![Len(log)] = ApRead(loop_register(pc), ans.v, ans.k)]
    /\ UNCHANGED << reset_frame, run_token, pc, polls, op >>

NextResync == ResyncStart \/ ResyncSteps
SpecResync == Init /\ [][NextResync]_vars

\* The resynchronization as the one thread of the session runs it: it always
\* takes its next step.
NextResyncLive ==
    \/ ResyncStart
    \/ ResyncSteps
    \/ \E ans \in ReadAnswers(ApValues) : PollOn(ans)

SpecResyncLive == Init /\ [][NextResyncLive]_vars /\ WF_vars(NextResyncLive)

\* The reset sequencer, after activations that a prompt flash controller
\* answers, with a debug-management AP that answers the awaited value, or a
\* fault, or (to the first loop) a timeout.
InitReset == Init /\ regs[DEMCR] = <<256, 2033>>

NextReset ==
    \/ \E h \in BOOLEAN : \E p \in PromptAnswers : SetResetCatch("None", h, p)
    \/ ClearResetCatch("None", FALSE)
    \/ ResetSteps
    \/ \E ans \in { a \in ReadAnswers({ DM_QUIESCENT }) : a.k # "ProbeError" } :
          AwaitQuiescent(ans)
    \/ \E ans \in { a \in ReadAnswers({ Zero }) : a.k \in { "ok", "TransferFaultError" } } :
          AwaitAck(ans)
    \/ \E ans \in { a \in ReadAnswers({ Zero }) : a.k \in { "ok", "TransferFaultError" } } :
          AwaitSession(ans)

SpecReset == InitReset /\ [][NextReset]_vars

\* Reads of the reset vector's slot and activations, with the flash erased
\* or programmed in between.
NextFresh ==
    \/ \E p \in NonSecureAnswers : ReadBlock32(RESET_VECTOR_ADDR, 1, p)
    \/ \E n \in 1..MaxSize : \E p \in NonSecureAnswers : ReadBlock8(RESET_VECTOR_ADDR, n, p)
    \/ \E h \in BOOLEAN : \E p \in NonSecureAnswers : SetResetCatch("None", h, p)
    \/ SleepAgain
    \/ WakeReadBlock32
    \/ WakeReadBlock8
    \/ WakeSetResetCatch
    \/ ClearResetCatch("None", FALSE)
    \/ FlashChange

SpecFresh == InitReset /\ [][NextFresh]_vars

\* Resets among reads of the reset vector's slot, activations and releases,
\* with the flash erased or programmed in between.
NextFlag ==
    \/ \E p \in NonSecureAnswers : ReadBlock32(RESET_VECTOR_ADDR, 1, p)
    \/ \E p \in NonSecureAnswers : ReadBlock8(RESET_VECTOR_ADDR, 1, p)
    \/ SleepAgain
    \/ WakeReadBlock32
    \/ WakeReadBlock8
    \/ \E h \in BOOLEAN : \E p \in PromptAnswers : SetResetCatch("None", h, p)
    \/ ClearResetCatch("None", FALSE)
    \/ FlashChange
    \/ \E h \in BOOLEAN : ResetStart("None", h)
    \/ \E ans \in ReadAnswers({ DM_QUIESCENT }) : ans.k = "ok" /\ AwaitQuiescent(ans)
    \/ \E ans \in ReadAnswers({ Zero }) : ans.k = "ok" /\ AwaitAck(ans)
    \/ \E ans \in ReadAnswers({ Zero }) : ans.k = "ok" /\ AwaitSession(ans)
    \/ \E ans \in ReadAnswers(DhcsrValues) : ans.k = "ok" /\ ResetPoll(ans)
    \/ ResetPollTimeout

SpecFlag == InitReset /\ [][NextFlag]_vars

\* The bring-up: the sequence is built, then run step by step; a step returns
\* or raises, and the step resynchronize_dm_ap runs the protocol against a
\* debug-management AP that answers the awaited value or an error, or goes
\* on answering the same.
NextPipeline ==
    \/ \E svd \in BOOLEAN : CreateInitSequence(svd)
    \/ \E raised \in StepOutcomes : ExecuteTop(raised)
    \/ \E raised \in StepOutcomes : ExecuteDiscovery(raised)
    \/ \E aps \in ApSets, raised \in StepOutcomes : FindComponents(aps, raised)
    \/ \E raised \in StepOutcomes : ExecuteComponents(raised)
    \/ \E ans \in ReadAnswers({ DM_QUIESCENT }) : AwaitQuiescent(ans)
    \/ \E ans \in ReadAnswers({ Zero }) : AwaitAck(ans)
    \/ \E ans \in ReadAnswers({ Zero }) : AwaitSession(ans)
    \/ \E ans \in ReadAnswers({ DM_QUIESCENT }) : PollOn(ans)

SpecPipeline == Init /\ [][NextPipeline]_vars

Next == Reads \/ Activations \/ FlashChange \/ BreakpointChange
        \/ ResyncStart \/ ResyncSteps \/ ResetSteps
Spec == Init /\ [][Next]_vars

(***************************************************************************)
(* Properties.  They read the operation that ran last (op), what it did    *)
(* (log) and the state it left.                                            *)
(***************************************************************************)
Indices(Test(_)) == { i \in 1..Len(log) : Test(log[i]) }

\* V | 1, bit 0 of the low half set.
WithThumbBit(v) == << v[1], IF v[2] % 2 = 0 THEN v[2] + 1 ELSE v[2] >>

IsFpbWrite(e) == e.ev = "write" /\ e.a \in { FPB_COMP0, FPB_CTRL }
IsComparatorWrite(e) == e.ev = "write" /\ e.a = FPB_COMP0
IsWatchpointArm(e) ==
    e.ev = "set_watchpoint" \/ (e.ev = "write" /\ e.a \in { DWT_COMP0, DWT_FUNCTION0 })

\* An activation the hook did not handle and that read the reset vector.
UnhandledActivation ==
    op.name = "set_reset_catch" /\ ~op.handled /\ op.outcome = "ok"

\* C1: after an activation the set_reset_catch hook did not handle, a reset
\* vector read as 0xFFFFFFFF gives mode WATCHPOINT and no write to FPB_COMP0
\* or FPB_CTRL; any other value V gives mode BREAKPOINT, one write of V | 1
\* to FPB_COMP0 (which then holds it), and no watchpoint armed.
C1_ModeFollowsResetVector ==
    UnhandledActivation =>
        IF op.vector = AllOnes
        THEN /\ reset_catch_mode = MODE_WATCHPOINT
             /\ Indices(IsFpbWrite) = {}
        ELSE /\ reset_catch_mode = MODE_BREAKPOINT
             /\ Cardinality(Indices(IsComparatorWrite)) = 1
             /\ \A i \in Indices(IsComparatorWrite) :
                   log[i].v = WithThumbBit(op.vector)
             /\ regs[FPB_COMP0] = WithThumbBit(op.vector)
             /\ Indices(IsWatchpointArm) = {}

\* C1's case: an unhandled activation read the even vector 0x1000 and armed
\* the breakpoint comparator with 0x1001.
C1_Witness ==
    /\ UnhandledActivation
    /\ op.vector = <<0, 4096>>
    /\ reset_catch_mode = MODE_BREAKPOINT
    /\ regs[FPB_COMP0] = <<0, 4097>>

\* C2: after the release of an activation the hook did not handle, DEMCR
\* holds, bit for bit, the value it held just before that activation, in
\* whichever mode the activation ended and wherever the pair stands in a
\* sequence of activations and releases.
C2_ReleaseRestoresDemcr ==
    (op.name = "clear_reset_catch" /\ ~reset_catch_delegate_result) =>
        regs[DEMCR] = demcr_before

\* C2's case: a released WATCHPOINT activation that had cleared a set
\* VC_CORERESET bit; DEMCR holds 0x010007F1 again.
C2_Witness ==
    /\ op.name = "clear_reset_catch"
    /\ ~reset_catch_delegate_result
    /\ reset_catch_mode = MODE_WATCHPOINT
    /\ demcr_before = <<256, 2033>>
    /\ regs[DEMCR] = <<256, 2033>>

\* The last operation is a read that has returned or raised.
IsReadOp ==
    /\ op.name \in { "read_memory_block32", "read_memory_block8" }
    /\ op.outcome # "running"
ReadWidth == IF op.name = "read_memory_block32" THEN "32" ELSE "8"
ReadLength == IF op.name = "read_memory_block32" THEN 4 * op.size ELSE op.size

\* [addr, addr + length) lies within a flash-typed region of the memory map.
InFlashRegion(addr, length) ==
    \E i \in 1..Len(MEMORY_MAP) :
        /\ MEMORY_MAP[i].is_flash
        /\ Le(MEMORY_MAP[i].start, addr)
        /\ Le(AddInt(addr, length), Add(MEMORY_MAP[i].start, MEMORY_MAP[i].length))

IsStatusRead(e) == e.ev = "read"
IsRawRead(e) == e.ev = "raw_read"
IsControllerWrite(e) == e.ev \in { "write", "write_block" }

\* The probe ran and the status it read last has FAIL, ERR or ECC_ERR set.
ProbeReportsErased ==
    /\ Indices(IsStatusRead) # {}
    /\ LET last == CHOOSE i \in Indices(IsStatusRead) :
                      \A j \in Indices(IsStatusRead) : j <= i
       IN  (log[last].v[2] % 16) \notin { 0, 4 }

\* Element i of what a raw read of the range returns.
RawElement(i) ==
    IF op.name = "read_memory_block32"
    THEN RawWord(flash, AddInt(op.addr, 4 * (i - 1)))
    ELSE RawByte(flash, AddInt(op.addr, i - 1))

\* Element i of the range as the program stored it (no breakpoint in it).
UnshadowedElement(i) ==
    IF op.name = "read_memory_block32"
    THEN RawWord(flash, AddInt(op.addr, 4 * (i - 1)))
    ELSE OriginalByte(flash, AddInt(op.addr, i - 1))

\* C5: a read of a range inside the flash region runs the probe; if the probe
\* reports erased the read returns the requested count of all-ones elements
\* and makes no raw read; otherwise it makes exactly one raw read, of the
\* range, and returns that read's data, only breakpoint-filtered.
C5_FlashReadFollowsProbe ==
    (IsReadOp /\ InFlashRegion(op.addr, ReadLength)) =>
        /\ Indices(IsStatusRead) # {}
        /\ IF ProbeReportsErased
           THEN /\ op.outcome = "ok"
                /\ Len(op.data) = op.size
                /\ \A i \in 1..Len(op.data) :
                      op.data[i] = IF op.name = "read_memory_block32" THEN AllOnes ELSE 255
                /\ Indices(IsRawRead) = {}
           ELSE /\ Indices(IsRawRead) = { Len(log) }
                /\ log[Len(log)] = RawRead(ReadWidth, op.addr, op.size, op.outcome)
                /\ op.outcome = "ok" =>
                      /\ Len(op.data) = op.size
                      /\ \A i \in 1..op.size :
                            op.data[i] \in { RawElement(i), UnshadowedElement(i) }

\* C5's case: a read of two words of flash the probe reported erased.
C5_Witness ==
    /\ op.name = "read_memory_block32"
    /\ InFlashRegion(op.addr, ReadLength)
    /\ ProbeReportsErased
    /\ op.size = 2
    /\ op.data = << AllOnes, AllOnes >>

\* C6: a read of a range that is not wholly inside the flash region (start in
\* no region, region not flash, or range running past the region's end) never
\* writes to the flash controller and consists of the raw read alone.
C6_OtherReadsBypassProbe ==
    (IsReadOp /\ ~InFlashRegion(op.addr, ReadLength)) =>
        /\ Indices(IsControllerWrite) = {}
        /\ Indices(IsStatusRead) = {}
        /\ log = << RawRead(ReadWidth, op.addr, op.size, op.outcome) >>

\* C6's case: a read of two bytes from the last byte of flash on, which runs
\* past the region's end.
C6_Witness ==
    /\ op.name = "read_memory_block8"
    /\ op.addr = <<3, 53247>>
    /\ op.size = 2
    /\ Len(log) = 1

\* C7: a read whose probe never saw the done bit within its wait ends in an
\* error, returns no data and makes no raw read (the timeout is neither taken
\* for "erased" nor for "not erased").
C7_ProbeTimeoutIsFatal ==
    (IsReadOp /\ op.timed_out) =>
        /\ op.outcome # "ok"
        /\ op.data = <<>>
        /\ Indices(IsRawRead) = {}

IsApRead(e) == e.ev = "ap_read"
IsApWrite(e) == e.ev = "ap_write"
IsApAccess(e) == e.ev \in { "ap_read", "ap_write" }
IsQuiescentRead(e) == e = ApRead(DM_STATUS_REG, DM_QUIESCENT, "ok")
IsStatusRegRead(e) == e.ev = "ap_read" /\ e.a = DM_STATUS_REG
IsResyncWrite(e) == e = ApWrite(DM_CSW_REG, DM_RESYNC_REQ)
IsSessionWrite(e) == e = ApWrite(DM_REQUEST_REG, DM_START_DBG_SESSION)
\* A read of the response register whose low 16 bits are 0.
IsSessionReady(e) ==
    e.ev = "ap_read" /\ e.a = DM_RESPONSE_REG /\ e.k = "ok" /\ e.v[2] = 0

\* C8: the resynchronization reads the status register (0xFC) until it reads
\* 0x002A0000, writing nothing before; the K-th read being the first to do so,
\* there are exactly K reads of it, then the write of 0x21 to 0x00; 0x07 is
\* written to 0x04 only just after 0x00 read 0; and the protocol returns only
\* on a read of 0x08 whose low 16 bits are 0.
C8_ResyncPhasesInOrder ==
    op.name = "resynchronize_dm_ap" =>
        /\ \A w \in Indices(IsApWrite) : IsResyncWrite(log[w]) \/ IsSessionWrite(log[w])
        /\ Cardinality(Indices(IsResyncWrite)) <= 1
        /\ Cardinality(Indices(IsSessionWrite)) <= 1
        /\ Indices(IsResyncWrite) = {} =>
              \A j \in 1..Len(log) : IsStatusRegRead(log[j]) /\ ~IsQuiescentRead(log[j])
        /\ \A w \in Indices(IsResyncWrite) :
              /\ w > 1
              /\ IsQuiescentRead(log[w - 1])
              /\ \A j \in 1..(w - 2) : ~IsQuiescentRead(log[j])
              /\ Indices(IsStatusRegRead) = 1..(w - 1)
        /\ \A s \in Indices(IsSessionWrite) :
              /\ log[s - 1] = ApRead(DM_CSW_REG, Zero, "ok")
              /\ \E w \in Indices(IsResyncWrite) :
                    /\ w < s - 1
                    /\ \A j \in (w + 1)..(s - 1) : IsApRead(log[j]) /\ log[j].a = DM_CSW_REG
        /\ (pc = "idle" /\ op.outcome = "ok") =>
              /\ Indices(IsSessionWrite) # {}
              /\ IsSessionReady(log[Len(log)])
              /\ \A s \in Indices(IsSessionWrite) :
                    \A j \in (s + 1)..Len(log) : IsApRead(log[j]) /\ log[j].a = DM_RESPONSE_REG

\* C8's case: a resynchronization that returned, whose status register
\* faulted on the first read and read 0x002A0000 on the second (K = 2).
C8_Witness ==
    /\ op.name = "resynchronize_dm_ap"
    /\ pc = "idle"
    /\ op.outcome = "ok"
    /\ Len(log) >= 3
    /\ log[1] = ApRead(DM_STATUS_REG, Zero, "TransferFaultError")
    /\ IsQuiescentRead(log[2])
    /\ IsResyncWrite(log[3])

\* The error each loop documents as transient: a fault on the status
\* register, a timeout on the command and the response register.
IsDocumentedTransient(e) ==
    \/ e.a = DM_STATUS_REG /\ e.k = "TransferFaultError"
    \/ e.a \in { DM_CSW_REG, DM_RESPONSE_REG } /\ e.k = "TransferTimeoutError"

\* C9: in the resynchronization, a register read that raises its loop's
\* documented transient error is followed by another read of the same
\* register (or the loop is still running); a read that raises any other
\* error is the protocol's last access and its error is the protocol's.
C9_OnlyDocumentedErrorsRetried ==
    op.name = "resynchronize_dm_ap" =>
        \A i \in 1..Len(log) :
            (IsApRead(log[i]) /\ log[i].k # "ok") =>
                IF IsDocumentedTransient(log[i])
                THEN IF i = Len(log)
                     THEN pc # "idle" /\ op.outcome = "running"
                     ELSE IsApRead(log[i + 1]) /\ log[i + 1].a = log[i].a
                ELSE /\ i = Len(log)
                     /\ pc = "idle"
                     /\ op.outcome = log[i].k

\* C9's case: a fault on the status register was retried, and a fault on the
\* command register then ended the protocol.
C9_Witness ==
    /\ op.name = "resynchronize_dm_ap"
    /\ pc = "idle"
    /\ op.outcome = "TransferFaultError"
    /\ Len(log) = 4
    /\ log[1] = ApRead(DM_STATUS_REG, Zero, "TransferFaultError")
    /\ log[4] = ApRead(DM_CSW_REG, Zero, "TransferFaultError")

\* C3: a reset whose status poll ran out of time without a read of DHCSR with
\* S_RESET_ST clear ends with the error ResetTimeout.
C3_PollTimeoutReported ==
    (op.name = "reset" /\ pc = "idle" /\ op.timed_out) =>
        op.outcome = "ResetTimeout"

IsHalt(e) == e.ev = "halt"
IsDidReset(e) == e.ev = "hook" /\ e.n = "did_reset"
IsHaltOrDidReset(e) == IsHalt(e) \/ IsDidReset(e)
IsResetAsserted(e) ==
    \/ e.ev = "perform_reset"
    \/ e.ev = "hook" /\ e.n = "will_reset" /\ op.handled
IsDhcsrPoll(e) == e.ev = "read" /\ e.a = DHCSR
IsPostReset(e) == e.ev = "notify" /\ e.n = "POST_RESET"

\* C4: in a reset, if the flash-erased flag is set, every access to the
\* debug-management AP comes after the reset was asserted and before the halt
\* and the did_reset hook, and these come only after the protocol's two writes
\* and its session-ready read; if the flag is clear, the reset makes no access
\* to the AP.
C4_ResyncIffFlashErased ==
    op.name = "reset" =>
        IF flash_erased
        THEN /\ \A i \in Indices(IsApAccess) :
                   /\ \E r \in Indices(IsResetAsserted) : r < i
                   /\ \A h \in Indices(IsHaltOrDidReset) : i < h
             /\ \A h \in Indices(IsHaltOrDidReset) :
                   \E a \in 1..h, b \in 1..h, c \in 1..h :
                      /\ a < b /\ b < c /\ c < h
                      /\ IsResyncWrite(log[a])
                      /\ IsSessionWrite(log[b])
                      /\ IsSessionReady(log[c])
             /\ (pc = "idle" /\ op.outcome = "ok") => Indices(IsHalt) # {}
        ELSE Indices(IsApAccess) = {}

\* C4's case: a reset that returned after a WATCHPOINT activation found the
\* flash erased, and that resynchronized the AP.
C4_Witness ==
    /\ op.name = "reset"
    /\ pc = "idle"
    /\ op.outcome = "ok"
    /\ flash_erased
    /\ reset_catch_mode = MODE_WATCHPOINT
    /\ Indices(IsSessionWrite) # {}

IsStep(e) == e.ev \in { "notify", "run_token", "hook", "perform_reset", "halt" }
StepLabel(e) == IF e.ev \in { "notify", "hook" } THEN e.n ELSE e.ev
StepLabels ==
    LET steps == SelectSeq(log, IsStep) IN
    [i \in 1..Len(steps) |-> StepLabel(steps[i])]

\* The steps of a reset that returns, by the will_reset hook's answer.
StepsInOrder(handled) ==
    << "PRE_RESET", "run_token", "will_reset" >>
    \o (IF handled THEN <<>> ELSE << "perform_reset" >>)
    \o << "halt", "did_reset", "POST_RESET" >>

ResetReturned == op.name = "reset" /\ pc = "idle" /\ op.outcome = "ok"

C10_StepsOfReturnedReset ==
    ResetReturned =>
        /\ StepLabels = StepsInOrder(op.handled)
        /\ log[2] = RunToken(run_token)
        /\ Indices(IsDhcsrPoll) # {}
        /\ \A i \in Indices(IsDhcsrPoll) :
              /\ \E d \in Indices(IsDidReset) : d < i
              /\ \A q \in Indices(IsPostReset) : i < q
        /\ \A i \in Indices(IsApAccess) :
              /\ \E r \in Indices(IsResetAsserted) : r < i
              /\ \A h \in Indices(IsHalt) : i < h

C10_RunTokenStep ==
    /\ run_token' \in { run_token, run_token + 1 }
    /\ (pc = "idle" /\ op'.name = "reset" /\ pc' # "idle") <=> (run_token' = run_token + 1)

\* C10: a reset that returns has done, once each and in this order: PRE_RESET,
\* the run token's increment, the will_reset hook and (only if it declined)
\* the reset itself, the AP resynchronization if any, the halt, the did_reset
\* hook, the status poll, POST_RESET; the run token never decreases and grows
\* by exactly 1 with each reset.
C10_ResetStepsInOrder ==
    [](C10_StepsOfReturnedReset) /\ [][C10_RunTokenStep]_vars

\* C10's case: the second reset returned, its will_reset hook having declined,
\* with flash not erased.
C10_Witness ==
    /\ ResetReturned
    /\ ~op.handled
    /\ ~op.timed_out
    /\ ~flash_erased
    /\ run_token = 2
    /\ Len(log) >= 8

IsPerformReset(e) == e.ev = "perform_reset"
IsResetHook(e) == e.ev = "hook" /\ e.n \in { "will_reset", "did_reset" }

\* C11: in a reset called with a reset type, the type handed to the
\* will_reset and did_reset hooks and to the reset itself is the one resolved
\* from the caller's parameter.
C11_CallerTypeGoverns ==
    (op.name = "reset" /\ op.reset_type # "None") =>
        /\ \A i \in Indices(IsPerformReset) :
              log[i].n = get_actual_reset_type(op.reset_type)
        /\ \A i \in Indices(IsResetHook) :
              log[i].k \in { "handled:" \o get_actual_reset_type(op.reset_type),
                             "declined:" \o get_actual_reset_type(op.reset_type) }

\* The calls that change whether the core runs: halt() stops it, the reset
\* starts it again.
IsRunControl(e) == e.ev \in { "halt", "perform_reset" }

\* The core is halted when the last such call of the operation was halt().
core_halted ==
    /\ Indices(IsRunControl) # {}
    /\ \E i \in Indices(IsRunControl) :
          /\ \A j \in Indices(IsRunControl) : j <= i
          /\ log[i].ev = "halt"

\* C12: when reset() has returned, the core is running, not halted.
C12_CoreRunsAfterReset ==
    ResetReturned => ~core_halted

IsDwtWrite(e) == e.ev = "write" /\ e.a \in { DWT_COMP0, DWT_FUNCTION0 }
IsDemcrWrite(e) == e.ev = "write" /\ e.a = DEMCR
IsMemWrite(e) == e.ev \in { "write", "write_block" }

\* A release after an activation the set_reset_catch hook did not handle.
UnhandledRelease ==
    op.name = "clear_reset_catch" /\ ~reset_catch_delegate_result

\* C13: a release after an unhandled activation writes DEMCR once, as its last
\* write; before it, after a BREAKPOINT activation it writes 0 to FPB_COMP0
\* and nothing to the DWT, and after a WATCHPOINT activation it writes 0 to
\* DWT_COMP0 and to DWT_FUNCTION0 and nothing to FPB_COMP0.
C13_ReleaseDisarmsWhatWasArmed ==
    UnhandledRelease =>
        /\ Indices(IsDemcrWrite) = { Len(log) }
        /\ reset_catch_mode = MODE_BREAKPOINT =>
              /\ Cardinality(Indices(IsComparatorWrite)) = 1
              /\ \A i \in Indices(IsComparatorWrite) : log[i].v = Zero
              /\ Indices(IsDwtWrite) = {}
              /\ regs[FPB_COMP0] = Zero
        /\ reset_catch_mode = MODE_WATCHPOINT =>
              /\ \E i \in Indices(IsDwtWrite) : log[i] = MemWrite(DWT_COMP0, Zero)
              /\ \E i \in Indices(IsDwtWrite) : log[i] = MemWrite(DWT_FUNCTION0, Zero)
              /\ Cardinality(Indices(IsDwtWrite)) = 2
              /\ Indices(IsComparatorWrite) = {}
              /\ regs[DWT_COMP0] = Zero /\ regs[DWT_FUNCTION0] = Zero
        /\ reset_catch_mode = MODE_NONE =>
              Indices(IsMemWrite) = { Len(log) }

\* C13's case: the release of a WATCHPOINT activation: the hook, the two DWT
\* writes, then DEMCR.
C13_Witness ==
    /\ UnhandledRelease
    /\ reset_catch_mode = MODE_WATCHPOINT
    /\ Len(log) = 4
    /\ log[2] = MemWrite(DWT_COMP0, Zero)
    /\ IsDemcrWrite(log[4])

\* C14: whenever no activation is outstanding (before the first one, and after
\* each release) the reset-catch mode is NONE.
C14_ModeNoneWhenReleased ==
    ~catch_active => reset_catch_mode = MODE_NONE

HandledActivation == op.name = "set_reset_catch" /\ op.handled
ReleaseAfterHandled == op.name = "clear_reset_catch" /\ reset_catch_delegate_result

C15_HandledDoesNothing ==
    /\ HandledActivation =>
          /\ log = << Hook("set_reset_catch", op.reset_type, TRUE) >>
          /\ reset_catch_mode = MODE_NONE
          /\ reset_catch_delegate_result
    /\ ReleaseAfterHandled =>
          log = << Hook("clear_reset_catch", op.reset_type, op.handled) >>
    /\ UnhandledRelease => Indices(IsDemcrWrite) # {}

C15_HandledStep ==
    (HandledActivation' \/ ReleaseAfterHandled') => regs' = regs

\* C15: an activation the set_reset_catch hook handled does nothing but call
\* the hook (no halt, no read, no write; the mode is NONE), and so does the
\* release that follows it, whatever the clear_reset_catch hook answers; the
\* release after an unhandled activation restores DEMCR whatever its own hook
\* answers; and neither handled step changes a register.
C15_HandledActivationIsInert ==
    [](C15_HandledDoesNothing) /\ [][C15_HandledStep]_vars

\* C15's case: the release after a handled activation, with a
\* clear_reset_catch hook that declined, did nothing but call the hook.
C15_Witness ==
    /\ ReleaseAfterHandled
    /\ ~op.handled
    /\ Len(log) = 1

\* C16: in a reset's status poll, a read of DHCSR that raises anything but a
\* transfer fault is the reset's last step: the reset ends with that error and
\* sends no POST_RESET.
C16_OnlyFaultRetriedInPoll ==
    op.name = "reset" =>
        \A i \in Indices(IsDhcsrPoll) :
            log[i].k \notin { "ok", "TransferFaultError" } =>
                /\ i = Len(log)
                /\ pc = "idle"
                /\ op.outcome = log[i].k
                /\ Indices(IsPostReset) = {}

\* C17: a resynchronization that has started ends, whatever the
\* debug-management AP answers: each polling loop is left in the end.
C17_ResyncTerminates ==
    (pc # "idle") ~> (pc = "idle")

\* A write of the margin-check command to the flash controller.
IsMarginCheck(e) ==
    /\ e.ev = "write"
    /\ e.v = FLASH_CMD_MARGIN_CHECK
    /\ e.a \in { Add(PERIPHERAL_BASE_NS, FLASH_CMD), Add(PERIPHERAL_BASE_S, FLASH_CMD) }

\* The probe ran and the status it read last has the done bit.
ProbeCompleted ==
    /\ Indices(IsStatusRead) # {}
    /\ \E i \in Indices(IsStatusRead) :
          /\ \A j \in Indices(IsStatusRead) : j <= i
          /\ (log[i].v[2] % 8) >= 4

\* All ones, in the element of the read's width.
ErasedElement == IF op.name = "read_memory_block32" THEN AllOnes ELSE 255

\* A read of a flash range issues exactly one margin check of its own and goes
\* by what that check reports, whatever earlier reads and activations saw: all
\* ones if it reports erased, else the one raw read; so does an unhandled
\* activation for its read of the reset vector.
C18_ReadGoesByItsOwnProbe ==
    /\ (IsReadOp /\ InFlashRegion(op.addr, ReadLength)) =>
          /\ Cardinality(Indices(IsMarginCheck)) = 1
          /\ ProbeReportsErased =>
                /\ op.outcome = "ok"
                /\ Len(op.data) = op.size
                /\ \A i \in 1..Len(op.data) : op.data[i] = ErasedElement
                /\ Indices(IsRawRead) = {}
          /\ ~ProbeReportsErased => Cardinality(Indices(IsRawRead)) = 1
    /\ UnhandledActivation => Cardinality(Indices(IsMarginCheck)) = 1

\* The probe's wait left at its first poll: the call never slept.
ProbeNeverSlept == Cardinality(Indices(IsStatusRead)) = 2

\* The result of a call whose check completes shows the flash as it is.
C18_ShowsFlashAsItIs ==
    /\ (IsReadOp /\ InFlashRegion(op.addr, ReadLength) /\ ProbeCompleted) =>
          /\ op.outcome = "ok"
          /\ Len(op.data) = op.size
          /\ \A i \in 1..Len(op.data) :
                op.data[i] = IF flash.erased THEN ErasedElement ELSE RawElement(i)
    /\ (UnhandledActivation /\ ProbeCompleted) =>
          /\ flash.erased => reset_catch_mode = MODE_WATCHPOINT
          /\ (~flash.erased /\ flash.vector # AllOnes) =>
                reset_catch_mode = MODE_BREAKPOINT /\ op.vector = flash.vector

\* A call that never slept shows the flash as it is when it returns.
C18_PromptCallShowsFlash == ProbeNeverSlept => C18_ShowsFlashAsItIs

\* A call that slept shows the flash as it is when it wakes, if the
\* controller's answer is the one of that flash: the other threads may have
\* erased or programmed the flash after the check was issued.
C18_FreshStep ==
    (sleeping # <<>> /\ sleeping' = <<>> /\ sleeping[1].answer.status \in DoneStatuses)
        => C18_ShowsFlashAsItIs'

\* C18: the erasure state is worked out anew at every read and never kept:
\* each read of a flash range issues exactly one margin check and its result
\* goes by that check; in a sequence of reads and activations with the flash
\* changed in between, each call whose check completes and answers for the
\* flash as it is shows that flash: all ones if it is erased, the raw data if
\* it is programmed, and an activation selects WATCHPOINT on erased flash and
\* BREAKPOINT on a programmed valid vector.
C18_ErasureProbedAtEachRead ==
    [](C18_ReadGoesByItsOwnProbe /\ C18_PromptCallShowsFlash) /\ [][C18_FreshStep]_vars

\* C18's case: after an activation that found the flash erased (WATCHPOINT,
\* flag set), the flash got the vector 0x1001 and a read of the slot returned
\* it.
C18_Witness ==
    /\ op.name = "read_memory_block32"
    /\ op.addr = RESET_VECTOR_ADDR
    /\ reset_catch_mode = MODE_WATCHPOINT
    /\ flash_erased
    /\ ~flash.erased
    /\ op.data = << <<0, 4097>> >>

\* No activation has read DEMCR yet: none so far was left to the core by the
\* set_reset_catch hook (DEMCR is never 0 under SpecReset).
NoUnhandledActivationYet == reset_catch_saved_demcr = Zero

\* C20: a reset issued while every activation so far, if any, was handled by
\* the hook finds the flash-erased flag set and resynchronizes the AP: it is
\* in the protocol's first loop or has accessed the AP, first by a read of the
\* status register.
C20_FirstResetResynchronizes ==
    (op.name = "reset" /\ NoUnhandledActivationYet) =>
        /\ flash_erased
        /\ pc = "await_quiescent" \/ Indices(IsApAccess) # {}
        /\ \A i \in Indices(IsApAccess) :
              (\A j \in Indices(IsApAccess) : i <= j) => IsStatusRegRead(log[i])

\* C20's case: a reset that returned after one activation, which the hook
\* handled, and that ran the whole protocol.
C20_Witness ==
    /\ ResetReturned
    /\ NoUnhandledActivationYet
    /\ reset_catch_delegate_result
    /\ Indices(IsSessionWrite) # {}

\* The sequence without the steps of the given names.
Without(seq, removed) == SelectSeq(seq, LAMBDA st : st.name \notin removed)
\* The sequence with every wrapper taken off.
Unwrapped(seq) == [i \in 1..Len(seq) |-> [seq[i] EXCEPT !.wrapper = "none"]]
UniqueNames(seq) == \A i, j \in 1..Len(seq) : seq[i].name = seq[j].name => i = j
ImmediatelyBefore(seq, a, b) ==
    \E i \in 1..(Len(seq) - 1) : seq[i].name = a /\ seq[i + 1].name = b
DiscoveryBuilt == pipeline.discovery # <<>>

\* C19: the family's bring-up sequence is the generic one with these edits
\* inside the discovery step and no others: resynchronize_dm_ap comes
\* immediately before find_aps, enable_traceclk immediately before
\* create_components, create_cores runs the family's core creation, and
\* set_ap1_nonsec comes immediately before init_ap.1 exactly when a step
\* init_ap.1 exists (otherwise the steps find_components returned are left as
\* they were and no edit fails); the other steps keep their tasks and their
\* order, and no two steps of a sequence share a name.  The bring-up fails
\* only by an error that a step's task raised, never by an edit.
C19_PipelineIsBasePlusEdits ==
    /\ pipeline.error \notin { "StepNotFound", "DuplicateStep" }
    /\ pipeline.stage = "failed" =>
          /\ pipeline.error \in ErrorKinds
          /\ \/ has_task(pipeline.top, pipeline.failed_step)
             \/ has_task(pipeline.discovery, pipeline.failed_step)
             \/ has_task(pipeline.components, pipeline.failed_step)
    /\ pipeline.stage # "none" =>
          /\ \E svd \in BOOLEAN : Unwrapped(pipeline.top) = BaseTop(svd)
          /\ UniqueNames(pipeline.top)
    /\ DiscoveryBuilt =>
          /\ ImmediatelyBefore(pipeline.discovery, "resynchronize_dm_ap", "find_aps")
          /\ ImmediatelyBefore(pipeline.discovery, "enable_traceclk", "create_components")
          /\ pipeline.discovery[index_of(pipeline.discovery, "create_cores")].task
                = "create_lpc55xx_cores"
          /\ Unwrapped(Without(pipeline.discovery,
                               { "resynchronize_dm_ap", "enable_traceclk" }))
                = [pipeline.base EXCEPT ![index_of(pipeline.base, "create_cores")].task
                                            = "create_lpc55xx_cores"]
          /\ UniqueNames(pipeline.discovery)
    /\ IF has_task(pipeline.base_components, "init_ap.1")
       THEN /\ ImmediatelyBefore(pipeline.components, "set_ap1_nonsec", "init_ap.1")
            /\ Without(pipeline.components, { "set_ap1_nonsec" }) = pipeline.base_components
       ELSE pipeline.components = pipeline.base_components
    /\ UniqueNames(pipeline.components)

\* C19 witnessed: the step resynchronize_dm_ap has run the protocol through a
\* fault it retried, and the steps find_components returned have run to their
\* end with set_ap1_nonsec among them, in a sequence that held init_ap.1 and
\* another access port's step.
C19_Witness ==
    /\ pipeline.stage = "done"
    /\ op.name = "resynchronize_dm_ap"
    /\ op.outcome = "ok"
    /\ \E i \in 1..Len(log) : log[i].ev = "ap_read" /\ log[i].k = "TransferFaultError"
    /\ has_task(pipeline.components, "set_ap1_nonsec")
    /\ Len(pipeline.base_components) > 1
    /\ pipeline.comp_pos = Len(pipeline.components)

\* After an activation the hook did not handle and that read the reset
\* vector, the flag tells whether the vector read 0xFFFFFFFF; a reset goes by
\* the flag as it stands.
C21_FlagIsActivationsResult ==
    /\ UnhandledActivation => (flash_erased <=> (op.vector = AllOnes))
    /\ op.name = "reset" => (op.resync <=> flash_erased)

\* Only an activation the hook did not handle and that read the reset vector
\* changes the flag; a reset that starts decides on the flag it finds.
C21_FlagStep ==
    /\ flash_erased' # flash_erased =>
          /\ op'.name = "set_reset_catch"
          /\ ~op'.handled
          /\ op'.outcome = "ok"
          /\ flash_erased' <=> (op'.vector = AllOnes)
    /\ run_token' # run_token =>
          /\ op'.name = "reset"
          /\ op'.resync <=> flash_erased

\* C21: the flash-erased flag is written only by an activation the hook did
\* not handle, to whether the reset vector read 0xFFFFFFFF; a reset, a
\* release, an activation the hook handled and every read with its
\* margin-check probe leave it as it was, so a reset goes by the result of the
\* last activation the hook did not handle, whatever the flash holds since.
C21_FlagWrittenOnlyByActivation ==
    [](C21_FlagIsActivationsResult) /\ [][C21_FlagStep]_vars

\* C21's case: a reset that returned after resynchronizing the AP, on the
\* word of an activation that found the reset vector erased and armed the
\* watchpoint, while the flash is programmed by now.
C21_Witness ==
    /\ ResetReturned
    /\ op.resync
    /\ Indices(IsSessionWrite) # {}
    /\ reset_catch_mode = MODE_WATCHPOINT
    /\ ~flash.erased

====
